---- MODULE Spec2Model ----
(***************************************************************************)
(* Flow-graph optimization layer of the JIT (src/coreclr/jit/fgopt.cpp):   *)
(* DFS numbering, reachability sets, dominators, unreachable-block         *)
(* elimination and the block simplifier, over a small flow graph.          *)
(*                                                                         *)
(* A BasicBlock* is a block id (a positive integer); nullptr is NoBlock    *)
(* and the imaginary entry block of fgComputeDoms is BBROOT.  The fields   *)
(* of BasicBlock are functions from block ids.  The pure operators work on *)
(* a record g holding all the fields (see G); an action computes the       *)
(* record a whole function of the JIT leaves behind and stores it back.    *)
(* With(v, F) computes v once and hands the value to F, the way a local    *)
(* of the C++ code is computed once and then read.                         *)
(***************************************************************************)
EXTENDS Integers, Sequences, FiniteSets, TLC

VARIABLES
    bbList,          \* the block list fgFirstBB, ->Next(), ... as a sequence of block ids
    bbJumpKind,      \* BasicBlock::bbJumpKind
    bbJumpDest,      \* BasicBlock::bbJumpDest (NoBlock when the kind has no target)
    bbJumpSwt,       \* BasicBlock::bbJumpSwt->bbsDstTab, the switch jump table
    bbJumpEhf,       \* BasicBlock::bbJumpEhf->bbeSuccs, the successors of a BBJ_EHFINALLYRET
    bbsDominant,     \* BBswtDesc::bbsHasDominantCase, bbsDominantCase, bbsDominantFraction
    bbStmtList,      \* BasicBlock::bbStmtList, the statements of the block
    bbFlags,         \* BasicBlock::bbFlags, a set of flag names
    bbPreds,         \* BasicBlock::bbPreds: for every block, source block -> duplicate count
    bbRefs,          \* BasicBlock::bbRefs
    bbNum,           \* BasicBlock::bbNum
    bbWeight,        \* BasicBlock::bbWeight
    bbTryIndex,      \* BasicBlock::bbTryIndex (0: not in a try)
    bbHndIndex,      \* BasicBlock::bbHndIndex (0: not in a handler)
    compHndBBtab,    \* the EH table: a sequence of EHblkDsc records
    genReturnBB,     \* Compiler::genReturnBB (NoBlock if none)
    fgEntryBB,       \* Compiler::fgEntryBB, the OSR original method entry (NoBlock if none)
    throwHlpBlks,    \* the blocks fgIsThrowHlpBlk answers true for
    isLIR,           \* compRationalIRForm / BasicBlock::IsLIR
    fgBBNumMax,      \* Compiler::fgBBNumMax
    fgEnterBlks,     \* Compiler::fgEnterBlks, a set of block numbers
    bbPreorderNum,   \* BasicBlock::bbPreorderNum
    bbPostorderNum,  \* BasicBlock::bbPostorderNum
    fgBBReversePostorder, \* Compiler::fgBBReversePostorder, indexed 0..fgBBNumMax
    bbReach,         \* BasicBlock::bbReach, a set of block numbers
    bbIDom,          \* BasicBlock::bbIDom
    fgDomTreePreOrder,   \* Compiler::fgDomTreePreOrder, indexed by block number
    fgDomTreePostOrder,  \* Compiler::fgDomTreePostOrder, indexed by block number
    fgDomBBcount,    \* Compiler::fgDomBBcount
    fgDomsComputed,  \* Compiler::fgDomsComputed
    fgCanRelocateEHRegions, \* Compiler::fgCanRelocateEHRegions
    fatal,           \* a noway_assert fired: the compilation of the method was abandoned
    stdInReader,     \* the fields of the console's StdInReader (NoStdInReader: none was made)
    pc,              \* the phase the compilation is in
    loc              \* the locals of the function in progress and the facts recorded at its calls

vars == <<bbList, bbJumpKind, bbJumpDest, bbJumpSwt, bbJumpEhf, bbsDominant, bbStmtList, bbFlags, bbPreds,
          bbRefs, bbNum, bbWeight, bbTryIndex, bbHndIndex, compHndBBtab, genReturnBB, fgEntryBB,
          throwHlpBlks, isLIR, fgBBNumMax, fgEnterBlks, bbPreorderNum, bbPostorderNum,
          fgBBReversePostorder, bbReach, bbIDom, fgDomTreePreOrder, fgDomTreePostOrder,
          fgDomBBcount, fgDomsComputed, fgCanRelocateEHRegions, fatal, stdInReader, pc, loc>>

-----------------------------------------------------------------------------
(* Bounds of the model *)

\* the largest number of blocks of a flow graph in the dominator specification
MaxBlocks == 3

-----------------------------------------------------------------------------
(* Values *)

NoBlock == 0
BBROOT == -1

\* A switch descriptor without a dominant case: BBswtDesc's constructor clears
\* bbsHasDominantCase, and the case and fraction are then never read.
NoDominantCase == [has |-> FALSE, case |-> 0, halves |-> 0]

\* No StdInReader was made.
NoStdInReader == <<>>

\* the record of all the fields, on which the operators below work
G == [list |-> bbList, kind |-> bbJumpKind, dest |-> bbJumpDest, swt |-> bbJumpSwt,
      ehf |-> bbJumpEhf, stmts |-> bbStmtList, flags |-> bbFlags, preds |-> bbPreds,
      refs |-> bbRefs, num |-> bbNum, weight |-> bbWeight, try |-> bbTryIndex,
      hnd |-> bbHndIndex, eh |-> compHndBBtab, genReturnBB |-> genReturnBB,
      fgEntryBB |-> fgEntryBB, throwHlp |-> throwHlpBlks, lir |-> isLIR,
      numMax |-> fgBBNumMax, enter |-> fgEnterBlks,
      pre |-> bbPreorderNum, post |-> bbPostorderNum, rpo |-> fgBBReversePostorder,
      reach |-> bbReach, idom |-> bbIDom, dtPre |-> fgDomTreePreOrder,
      dtPost |-> fgDomTreePostOrder, domBBcount |-> fgDomBBcount,
      domsComputed |-> fgDomsComputed, fgCanRelocateEHRegions |-> fgCanRelocateEHRegions,
      fatal |-> fatal, swtDom |-> bbsDominant]

\* store a record of fields back into the variables
SetGraph(g) ==
    /\ bbList' = g.list /\ bbJumpKind' = g.kind /\ bbJumpDest' = g.dest
    /\ bbJumpSwt' = g.swt /\ bbJumpEhf' = g.ehf /\ bbStmtList' = g.stmts
    /\ bbFlags' = g.flags /\ bbPreds' = g.preds /\ bbRefs' = g.refs /\ bbNum' = g.num
    /\ bbWeight' = g.weight /\ bbTryIndex' = g.try /\ bbHndIndex' = g.hnd
    /\ compHndBBtab' = g.eh /\ genReturnBB' = g.genReturnBB /\ fgEntryBB' = g.fgEntryBB
    /\ throwHlpBlks' = g.throwHlp /\ isLIR' = g.lir
    /\ fgBBNumMax' = g.numMax /\ fgEnterBlks' = g.enter
    /\ bbPreorderNum' = g.pre /\ bbPostorderNum' = g.post
    /\ fgBBReversePostorder' = g.rpo /\ bbReach' = g.reach /\ bbIDom' = g.idom
    /\ fgDomTreePreOrder' = g.dtPre /\ fgDomTreePostOrder' = g.dtPost
    /\ fgDomBBcount' = g.domBBcount /\ fgDomsComputed' = g.domsComputed
    /\ fgCanRelocateEHRegions' = g.fgCanRelocateEHRegions
    /\ fatal' = g.fatal /\ bbsDominant' = g.swtDom

\* a step of the compiler: the console is left alone
SetG(g) == SetGraph(g) /\ stdInReader' = stdInReader

\* the value of v, computed once, handed to F
With(v, F(_)) == CHOOSE r \in {F(x) : x \in {v}} : TRUE

\* a while loop: Step is applied to the state until Done holds, n times at most
\* (n is an upper bound of the iterations the loop can make)
RECURSIVE Loop(_, _, _, _)
Loop(Step(_), Done(_), ss, n) ==
    With(ss, LAMBDA s :
    IF Done(s) THEN s
    ELSE IF n <= 1 THEN Step(s)
    ELSE Loop(Step, Done, Loop(Step, Done, s, n \div 2), n - (n \div 2)))

\* the sum of the natural numbers f[x] over the x of S
SumOver(f, S) == Cardinality(UNION {{<<x, i>> : i \in 1..f[x]} : x \in S})

SeqToSet(s) == {s[i] : i \in 1..Len(s)}

\* every block id of the graph, in the list or not
Ids(g) == DOMAIN g.kind

\* the blocks of Blocks(): those linked in the block list
Blocks(g) == SeqToSet(g.list)

fgFirstBB(g) == IF g.list = <<>> THEN NoBlock ELSE g.list[1]

fgBBcount(g) == Len(g.list)

IndexOf(g, b) == CHOOSE i \in 1..Len(g.list) : g.list[i] = b

\* BasicBlock::Next
Next(g, b) == IF b \in Blocks(g) /\ IndexOf(g, b) < Len(g.list) THEN g.list[IndexOf(g, b) + 1] ELSE NoBlock

\* BasicBlock::Prev
Prev(g, b) == IF b \in Blocks(g) /\ IndexOf(g, b) > 1 THEN g.list[IndexOf(g, b) - 1] ELSE NoBlock

\* the distinct elements of a sequence, in the order of their first occurrence
RECURSIVE Uniq(_)
Uniq(s) ==
    IF s = <<>> THEN <<>>
    ELSE With(Uniq(SubSeq(s, 1, Len(s) - 1)), LAMBDA r :
              IF s[Len(s)] \in SeqToSet(r) THEN r ELSE Append(r, s[Len(s)]))

\* BasicBlock::NumSucc(comp) / GetSucc(i, comp): the successors of a block, in order
Succs(g, b) ==
    CASE g.kind[b] \in {"BBJ_ALWAYS", "BBJ_CALLFINALLY", "BBJ_EHCATCHRET", "BBJ_EHFILTERRET"} ->
             <<g.dest[b]>>
      [] g.kind[b] = "BBJ_COND" ->
             IF g.dest[b] = Next(g, b) THEN <<Next(g, b)>> ELSE <<Next(g, b), g.dest[b]>>
      [] g.kind[b] = "BBJ_SWITCH" -> Uniq(g.swt[b])
      [] g.kind[b] = "BBJ_EHFINALLYRET" -> g.ehf[b]
      [] OTHER -> <<>>

\* the successor slots of a block: jump target, fall-through, switch-table entries
Slots(g, s) ==
    CASE g.kind[s] \in {"BBJ_ALWAYS", "BBJ_CALLFINALLY", "BBJ_EHCATCHRET", "BBJ_EHFILTERRET"} ->
             <<g.dest[s]>>
      [] g.kind[s] = "BBJ_COND" -> <<g.dest[s], Next(g, s)>>
      [] g.kind[s] = "BBJ_SWITCH" -> g.swt[s]
      [] g.kind[s] = "BBJ_EHFINALLYRET" -> g.ehf[s]
      [] OTHER -> <<>>

\* the blocks of a graph and their successor slots, counted together: the steps
\* a walk over every block and every edge takes at most
FlowSize(g) == SumOver([b \in Ids(g) |-> Len(Slots(g, b)) + 1], Ids(g))

\* the sources of the predecessor edges of a block
PredSet(g, b) == {s \in DOMAIN g.preds[b] : g.preds[b][s] > 0}

\* a set of blocks as a sequence in increasing bbNum order (the order of a pred list)
RECURSIVE ByNum(_, _)
ByNum(g, SS) ==
    With(SS, LAMBDA S :
      IF S = {} THEN <<>>
      ELSE With(CHOOSE x \in S : \A y \in S : g.num[x] < g.num[y] \/ (g.num[x] = g.num[y] /\ x <= y),
                LAMBDA m : <<m>> \o ByNum(g, S \ {m})))

\* BasicBlock::PredBlocks
PredBlocks(g, b) == ByNum(g, PredSet(g, b))

\* the block carrying a block number
BlockOfNum(g, n) == CHOOSE b \in Blocks(g) : g.num[b] = n

\* EHblkDsc::HasFilter
HasFilter(d) == d.ebdFilter # NoBlock

\* the handler and filter begin blocks of the EH table
EHRoots(g) == {g.eh[i].ebdHndBeg : i \in 1..Len(g.eh)}
              \cup {g.eh[i].ebdFilter : i \in {j \in 1..Len(g.eh) : HasFilter(g.eh[j])}}

-----------------------------------------------------------------------------
(* Renumbering, enter blocks, DFS numbering *)

\* Compiler::fgRenumberBlocks: number the blocks of the list 1..N in list order
fgRenumberBlocks(gg) ==
    With(gg, LAMBDA g :
    [g EXCEPT !.num = [b \in Ids(g) |-> IF b \in Blocks(g) THEN IndexOf(g, b) ELSE g.num[b]],
              !.numMax = Len(g.list)])

\* Compiler::fgComputeEnterBlocksSet
fgComputeEnterBlocksSet(gg) ==
    With(gg, LAMBDA g :
    [g EXCEPT !.enter = {g.num[fgFirstBB(g)]} \cup {g.num[b] : b \in EHRoots(g)}])

\* Compiler::fgDfsReversePostorderHelper: the loop over the evaluation stack.
\* d holds the stack of DfsBlockEntry (block, m_iter), the visited set and the counters.
DfsLoop(g, dd) ==
    Loop(LAMBDA d :
           LET top == d.stack[Len(d.stack)]
               succs == Succs(g, top.block)
           IN IF top.iter >= Len(succs)
              THEN \* final visit to this node
                   [d EXCEPT !.post[top.block] = d.postorderIndex,
                             !.rpo[fgBBcount(g) - d.postorderIndex + 1] = top.block,
                             !.postorderIndex = d.postorderIndex + 1,
                             !.stack = SubSeq(d.stack, 1, Len(d.stack) - 1)]
              ELSE LET succ == succs[top.iter + 1]
                       stk == [d.stack EXCEPT ![Len(d.stack)].iter = top.iter + 1]
                   IN IF g.num[succ] \in d.visited
                      THEN [d EXCEPT !.stack = stk]
                      ELSE [d EXCEPT !.stack = Append(stk, [block |-> succ, iter |-> 0]),
                                     !.visited = d.visited \cup {g.num[succ]},
                                     !.pre[succ] = d.preorderIndex,
                                     !.preorderIndex = d.preorderIndex + 1],
         LAMBDA d : d.stack = <<>>, dd, FlowSize(g))

\* the helper without the preorder number of the block the walk starts at
fgDfsReversePostorderHelper_RootUnnumbered(g, block, d) ==
    DfsLoop(g, [d EXCEPT !.stack = <<[block |-> block, iter |-> 0]>>,
                         !.visited = d.visited \cup {g.num[block]},
                         !.preorderIndex = d.preorderIndex + 1])

fgDfsReversePostorderHelper(g, block, d) ==
    DfsLoop(g, [d EXCEPT !.stack = <<[block |-> block, iter |-> 0]>>,
                         !.visited = d.visited \cup {g.num[block]},
                         !.pre[block] = d.preorderIndex,
                         !.preorderIndex = d.preorderIndex + 1])

\* start a walk at every not yet visited block of a sequence of roots, in order
DfsFrom(g, roots, dd) ==
    Loop(LAMBDA s : [roots |-> Tail(s.roots),
                     d |-> IF g.num[Head(s.roots)] \in s.d.visited THEN s.d
                           ELSE fgDfsReversePostorderHelper(g, Head(s.roots), s.d)],
         LAMBDA s : s.roots = <<>>, [roots |-> roots, d |-> dd], Len(roots)).d

\* the filter and handler begin blocks in the order fgDfsReversePostorder walks them
RECURSIVE EHRootSeq(_, _)
EHRootSeq(g, i) ==
    IF i > Len(g.eh) THEN <<>>
    ELSE (IF HasFilter(g.eh[i]) THEN <<g.eh[i].ebdFilter>> ELSE <<>>)
         \o <<g.eh[i].ebdHndBeg>> \o EHRootSeq(g, i + 1)

\* Compiler::fgDfsReversePostorder
fgDfsReversePostorder(gg) ==
    With(gg, LAMBDA g :
    With(fgDfsReversePostorderHelper(g, fgFirstBB(g),
             [stack |-> <<>>, visited |-> {}, pre |-> g.pre, post |-> g.post,
              rpo |-> [i \in 0..g.numMax |-> NoBlock], preorderIndex |-> 1, postorderIndex |-> 1]),
         LAMBDA d1 :
    With(IF g.fgEntryBB # NoBlock THEN DfsFrom(g, <<g.fgEntryBB>>, d1) ELSE d1, LAMBDA d2 :
    With(IF d2.preorderIndex # fgBBcount(g) + 1 THEN DfsFrom(g, EHRootSeq(g, 1), d2) ELSE d2,
         LAMBDA d3 :
    \* highestReachablePostorderNumber is d3.postorderIndex - 1
    With(IF d3.postorderIndex - 1 # fgBBcount(g) THEN DfsFrom(g, g.list, d3) ELSE d3, LAMBDA d4 :
       [g EXCEPT !.pre = d4.pre, !.post = d4.post, !.rpo = d4.rpo,
                 !.fatal = g.fatal \/ d4.preorderIndex # fgBBcount(g) + 1
                                   \/ d4.postorderIndex # fgBBcount(g) + 1
                                   \/ g.numMax # fgBBcount(g)])))))

-----------------------------------------------------------------------------
(* Reachability sets *)

\* the loop over the predecessors of one block: union their sets into the block's set
ReachPreds(g, block, ps, rr) ==
    Loop(LAMBDA s : [ps |-> Tail(s.ps),
                     r |-> [reach |-> [s.r.reach EXCEPT ![block] = @ \cup s.r.reach[Head(s.ps)]],
                            change |-> s.r.change \/ ~(s.r.reach[Head(s.ps)] \subseteq s.r.reach[block]),
                            predGc |-> s.r.predGc /\ "BBF_GC_SAFE_POINT" \in s.r.flags[Head(s.ps)],
                            flags |-> s.r.flags]],
         LAMBDA s : s.ps = <<>>, [ps |-> ps, r |-> rr], Len(ps)).r

\* one pass over fgBBReversePostorder[1..fgBBNumMax]
ReachPass(g, i, rr) ==
    Loop(LAMBDA s :
           [i |-> s.i + 1,
            r |-> IF PredSet(g, g.rpo[s.i]) # {}
                  THEN With(ReachPreds(g, g.rpo[s.i], PredBlocks(g, g.rpo[s.i]),
                                       [s.r EXCEPT !.predGc = TRUE]),
                            LAMBDA q :
                              [q EXCEPT !.flags[g.rpo[s.i]] =
                                           IF q.predGc THEN @ \cup {"BBF_GC_SAFE_POINT"} ELSE @])
                  ELSE s.r],
         LAMBDA s : s.i > g.numMax, [i |-> i, r |-> rr], g.numMax).r

\* the reach sets after a single pass, the do-while loop left out
ReachFix_OnePass(g, r) == ReachPass(g, 1, [r EXCEPT !.change = FALSE])

\* the do-while (change) loop
ReachFix(g, r) ==
    Loop(LAMBDA q : ReachPass(g, 1, [q EXCEPT !.change = FALSE]),
         LAMBDA q : ~q.change, [r EXCEPT !.change = TRUE],
         Cardinality(Ids(g)) * Cardinality(Ids(g)) + 1)

\* Compiler::fgComputeReachabilitySets
fgComputeReachabilitySets(gg) ==
    With(gg, LAMBDA g :
    With(ReachFix(g, [reach |-> [b \in Ids(g) |-> IF b \in Blocks(g) THEN {g.num[b]} ELSE g.reach[b]],
                      change |-> FALSE, predGc |-> TRUE, flags |-> g.flags]),
         LAMBDA r : [g EXCEPT !.reach = r.reach, !.flags = r.flags]))

-----------------------------------------------------------------------------
(* Dominators *)

\* bbPostorderNum, with the imaginary root numbered fgBBNumMax + 1 (bbRoot.bbPostorderNum)
PostNum(g, x) == IF x = BBROOT THEN g.numMax + 1 ELSE g.post[x]

\* bbIDom, with bbRoot.bbIDom = &bbRoot
IDomOf(idom, x) == IF x = BBROOT THEN BBROOT ELSE idom[x]

\* fgIntersectDom giving back its first finger without walking up the tree
fgIntersectDom_FirstFinger(g, idom, a, b, fuel) == a

\* Compiler::fgIntersectDom: advance the finger with the lower postorder number.
\* fuel bounds the walk; NoBlock is returned when a finger runs off a null bbIDom
\* or the fingers stop advancing.
RECURSIVE fgIntersectDom(_, _, _, _, _)
fgIntersectDom(g, idom, a, b, fuel) ==
    With(a, LAMBDA finger1 : With(b, LAMBDA finger2 :
    IF finger1 = finger2 THEN finger1
    ELSE IF fuel = 0 \/ finger1 = NoBlock \/ finger2 = NoBlock THEN NoBlock
    ELSE IF PostNum(g, finger1) < PostNum(g, finger2)
         THEN fgIntersectDom(g, idom, IDomOf(idom, finger1), finger2, fuel - 1)
    ELSE IF PostNum(g, finger2) < PostNum(g, finger1)
         THEN fgIntersectDom(g, idom, finger1, IDomOf(idom, finger2), fuel - 1)
    ELSE NoBlock))

\* the first predecessor, in pred list order, whose number is in processedBlks
RECURSIVE FirstProcessed(_, _, _)
FirstProcessed(g, pp, processed) ==
    With(pp, LAMBDA ps :
    IF ps = <<>> THEN NoBlock
    ELSE IF g.num[Head(ps)] \in processed THEN Head(ps)
    ELSE FirstProcessed(g, Tail(ps), processed))

\* the loop over the predecessors p of a block that intersects newidom with each
RECURSIVE DomPreds(_, _, _, _, _)
DomPreds(g, idom, pp, first, nn) ==
    With(pp, LAMBDA ps : With(nn, LAMBDA newidom :
    IF ps = <<>> \/ newidom = NoBlock THEN newidom
    ELSE IF Head(ps) = first THEN DomPreds(g, idom, Tail(ps), first, newidom)
    ELSE IF idom[Head(ps)] # NoBlock
         THEN DomPreds(g, idom, Tail(ps), first,
                       fgIntersectDom(g, idom, Head(ps), newidom, 2 * (g.numMax + 2)))
    ELSE DomPreds(g, idom, Tail(ps), first, newidom)))

\* one pass of the fixpoint loop over fgBBReversePostorder[1..fgBBNumMax];
\* s holds bbIDom, processedBlks, changed and whether a noway_assert fired
RECURSIVE DomPass(_, _, _)
DomPass(g, i, ss) ==
    With(ss, LAMBDA s :
    IF i > g.numMax \/ s.fatal THEN s
    ELSE IF s.idom[g.rpo[i]] = BBROOT THEN DomPass(g, i + 1, s)
    ELSE With(PredBlocks(g, g.rpo[i]), LAMBDA ps :
         With(FirstProcessed(g, ps, s.processed), LAMBDA first :
         With(DomPreds(g, s.idom, ps, first, first), LAMBDA newidom :
              IF first = NoBlock \/ newidom = NoBlock
              THEN [s EXCEPT !.fatal = TRUE]
              ELSE DomPass(g, i + 1,
                           [s EXCEPT !.idom[g.rpo[i]] = newidom,
                                     !.changed = s.changed \/ s.idom[g.rpo[i]] # newidom,
                                     !.processed = s.processed \cup {g.num[g.rpo[i]]}])))))

\* the while (changed) loop
RECURSIVE DomFix(_, _)
DomFix(g, s) ==
    With(DomPass(g, 1, [s EXCEPT !.changed = FALSE]), LAMBDA q :
         IF q.changed /\ ~q.fatal THEN DomFix(g, q) ELSE q)

\* Compiler::fgCompDominatedByExceptionalEntryBlocks: the loop over the reverse postorder
RECURSIVE ExcEntryLoop(_, _, _, _)
ExcEntryLoop(g, idom, i, ff) ==
    With(ff, LAMBDA flags :
    IF i > g.numMax THEN flags
    ELSE LET block == g.rpo[i]
             set == IF g.num[block] \in g.enter
                    THEN fgFirstBB(g) # block
                    ELSE idom[block] \notin {BBROOT, NoBlock}
                         /\ "BBF_DOMINATED_BY_EXCEPTIONAL_ENTRY" \in flags[idom[block]]
         IN ExcEntryLoop(g, idom, i + 1,
                         IF set THEN [flags EXCEPT ![block] = @ \cup {"BBF_DOMINATED_BY_EXCEPTIONAL_ENTRY"}]
                         ELSE flags))

fgCompDominatedByExceptionalEntryBlocks(g, idom) ==
    IF Cardinality(g.enter) # 1 THEN ExcEntryLoop(g, idom, 1, g.flags) ELSE g.flags

\* a sequence reversed
Rev(s) == [i \in 1..Len(s) |-> s[Len(s) + 1 - i]]

\* the elements of a sequence that are members of a set, in order
Filter(s, S) == SelectSeq(s, LAMBDA x : x \in S)

\* Compiler::fgBuildDomTree: the children of a node from firstChild through nextSibling.
\* Each block is pushed at the front of its parent's child list, so the children
\* come in reverse list order; the forest roots are chained in list order.
DomChildren(g, idom, parent) ==
    Rev(Filter(Tail(g.list), {b \in Blocks(g) : idom[b] = parent}))

DomRoots(g, idom) ==
    <<fgFirstBB(g)>> \o Filter(Tail(g.list), {b \in Blocks(g) : idom[b] = BBROOT})

\* the tree walk with the postorder number of a node given before its children are walked
RECURSIVE WalkNodes_PostFirst(_, _, _, _)
WalkNodes_PostFirst(g, idom, nn, ww) ==
    With(nn, LAMBDA nodes : With(ww, LAMBDA w :
    IF nodes = <<>> THEN w
    ELSE With(WalkNodes_PostFirst(g, idom, DomChildren(g, idom, Head(nodes)),
                  [w EXCEPT !.dtPre[g.num[Head(nodes)]] = w.preNum, !.preNum = w.preNum + 1,
                            !.dtPost[g.num[Head(nodes)]] = w.postNum, !.postNum = w.postNum + 1]),
              LAMBDA w2 : WalkNodes_PostFirst(g, idom, Tail(nodes), w2))))

\* Compiler::fgNumberDomTree (DomTreeVisitor::WalkTree): pre- and postorder numbers
\* of the dominator forest; w holds the two arrays and the two counters
RECURSIVE WalkNodes(_, _, _, _)
WalkNodes(g, idom, nn, ww) ==
    With(nn, LAMBDA nodes : With(ww, LAMBDA w :
    IF nodes = <<>> THEN w
    ELSE With(WalkNodes(g, idom, DomChildren(g, idom, Head(nodes)),
                  [w EXCEPT !.dtPre[g.num[Head(nodes)]] = w.preNum, !.preNum = w.preNum + 1]),
              LAMBDA w2 :
                WalkNodes(g, idom, Tail(nodes),
                          [w2 EXCEPT !.dtPost[g.num[Head(nodes)]] = w2.postNum,
                                     !.postNum = w2.postNum + 1]))))

fgNumberDomTree(g, idom) ==
    WalkNodes(g, idom, DomRoots(g, idom),
              [dtPre |-> [n \in 0..g.numMax |-> 0], dtPost |-> [n \in 0..g.numMax |-> 0],
               preNum |-> 1, postNum |-> 1])

\* the blocks fgComputeDoms hangs under the imaginary root besides fgFirstBB:
\* those without predecessors and the handler and filter begin blocks
DomExtraRoots(g) == {b \in Blocks(g) \ {fgFirstBB(g)} : PredSet(g, b) = {}} \cup EHRoots(g)

\* Compiler::fgComputeDoms up to the end of the while (changed) loop: bbIDom,
\* processedBlks and whether a noway_assert of the loop fired
DomLoop(g) ==
    With(DomExtraRoots(g), LAMBDA extra :
         DomFix(g, [idom |-> [b \in Ids(g) |-> IF b = fgFirstBB(g) \/ b \in extra THEN BBROOT
                                               ELSE IF b \in Blocks(g) THEN NoBlock ELSE g.idom[b]],
                    processed |-> {0, 1} \cup {g.num[b] : b \in extra},
                    changed |-> TRUE, fatal |-> FALSE]))

\* Compiler::fgComputeDoms
fgComputeDoms(gg) ==
    With(gg, LAMBDA g :
    With(DomLoop(g), LAMBDA s :
    IF s.fatal THEN [g EXCEPT !.fatal = TRUE, !.idom = s.idom]
    ELSE With(fgNumberDomTree(g, s.idom), LAMBDA w :
         \* the asserts of NumberDomTreeVisitor::End
         With(w.preNum = g.numMax + 1 /\ w.postNum = g.numMax + 1 /\ w.dtPre[1] = 1, LAMBDA endOk :
              [g EXCEPT !.idom = [b \in Ids(g) |-> IF s.idom[b] = BBROOT THEN NoBlock ELSE s.idom[b]],
                        !.flags = fgCompDominatedByExceptionalEntryBlocks(g, s.idom),
                        !.dtPre = w.dtPre, !.dtPost = w.dtPost,
                        !.domBBcount = fgBBcount(g),
                        !.domsComputed = endOk,
                        !.fatal = g.fatal \/ ~endOk]))))

\* Compiler::fgDominate, as "T", "F" or, for a recursion over the predecessors of
\* blocks created after the dominators were computed that does not return, "D";
\* fuel bounds that recursion
RECURSIVE fgDominateR(_, _, _, _)
RECURSIVE DominatePreds(_, _, _, _)
DominatePreds(g, b1, pp, fuel) ==
    With(pp, LAMBDA ps :
    IF ps = <<>> THEN "T"
    ELSE With(fgDominateR(g, b1, Head(ps), fuel), LAMBDA r :
              IF r = "T" THEN DominatePreds(g, b1, Tail(ps), fuel) ELSE r))

fgDominateR(g, b1, bb, fuel) ==
    With(bb, LAMBDA b2 :
    IF g.num[b2] > g.domBBcount
    THEN IF b1 = b2 THEN "T"
         ELSE IF fuel = 0 THEN "D"
         ELSE With(DominatePreds(g, b1, PredBlocks(g, b2), fuel - 1), LAMBDA r :
                   IF r # "T" THEN r
                   ELSE IF PredSet(g, b2) # {} THEN "T" ELSE "F")
    ELSE IF g.num[b1] > g.domBBcount THEN "F"
    ELSE IF g.dtPre[g.num[b1]] <= g.dtPre[g.num[b2]] /\ g.dtPost[g.num[b1]] >= g.dtPost[g.num[b2]]
         THEN "T" ELSE "F")

\* the depth after which a recursion over new blocks is taken not to return
QueryFuel(g) == 2 * Cardinality(Ids(g)) + 2

\* fgDominate with the dominator-tree numbers compared strictly
fgDominate_Strict(g, b1, b2) ==
    IF g.num[b1] <= g.domBBcount /\ g.num[b2] <= g.domBBcount
    THEN g.dtPre[g.num[b1]] < g.dtPre[g.num[b2]] /\ g.dtPost[g.num[b1]] > g.dtPost[g.num[b2]]
    ELSE fgDominateR(g, b1, b2, QueryFuel(g)) = "T"

fgDominate(g, b1, b2) == fgDominateR(g, b1, b2, QueryFuel(g)) = "T"

\* Compiler::fgReachable, as "T", "F" or "D" like fgDominateR
RECURSIVE fgReachableR(_, _, _, _)
RECURSIVE ReachablePreds(_, _, _, _)
ReachablePreds(g, b1, pp, fuel) ==
    With(pp, LAMBDA ps :
    IF ps = <<>> THEN "F"
    ELSE With(fgReachableR(g, b1, Head(ps), fuel), LAMBDA r :
              IF r = "F" THEN ReachablePreds(g, b1, Tail(ps), fuel) ELSE r))

\* fgReachable answering false for every source numbered above fgDomBBcount
fgReachableR_UnknownSource(g, aa, bb, fuel) ==
    With(aa, LAMBDA b1 : With(bb, LAMBDA b2 :
    IF g.num[b2] > g.domBBcount
    THEN IF b1 = b2 THEN "T"
         ELSE IF fuel = 0 THEN "D"
         ELSE ReachablePreds(g, b1, PredBlocks(g, b2), fuel - 1)
    ELSE IF g.num[b1] > g.domBBcount THEN "F"
    ELSE IF g.num[b1] \in g.reach[b2] THEN "T" ELSE "F"))

fgReachableR(g, aa, bb, fuel) ==
    With(aa, LAMBDA b1 : With(bb, LAMBDA b2 :
    IF g.num[b2] > g.domBBcount
    THEN IF b1 = b2 THEN "T"
         ELSE IF fuel = 0 THEN "D"
         ELSE ReachablePreds(g, b1, PredBlocks(g, b2), fuel - 1)
    ELSE IF g.num[b1] > g.domBBcount
    THEN IF fuel = 0 THEN "D"
         ELSE IF g.kind[b1] = "BBJ_COND"
         THEN With(fgReachableR(g, Next(g, b1), b2, fuel - 1), LAMBDA r :
                   IF r = "F" THEN fgReachableR(g, g.dest[b1], b2, fuel - 1) ELSE r)
         ELSE fgReachableR(g, g.dest[b1], b2, fuel - 1)
    ELSE IF g.num[b1] \in g.reach[b2] THEN "T" ELSE "F"))

\* fgReachable with its arguments exchanged
fgReachable_Swapped(g, b1, b2) == fgReachableR(g, b2, b1, QueryFuel(g)) = "T"

fgReachable(g, b1, b2) == fgReachableR(g, b1, b2, QueryFuel(g)) = "T"

-----------------------------------------------------------------------------
(* Flow graphs to start from *)

\* the number of successor slots of s that designate t
SlotCount(g, s, t) == Cardinality({i \in 1..Len(Slots(g, s)) : Slots(g, s)[i] = t})

\* the references to a block that are not predecessor edges: the method entry,
\* the OSR entry, and the entry of a handler or filter
FixedRefs(g, b) ==
    (IF b = fgFirstBB(g) THEN 1 ELSE 0) + (IF b = g.fgEntryBB THEN 1 ELSE 0)
    + Cardinality({i \in 1..Len(g.eh) : g.eh[i].ebdHndBeg = b})
    + Cardinality({i \in 1..Len(g.eh) : g.eh[i].ebdFilter = b})

\* Compiler::fgComputePreds: predecessor edges and reference counts from the successors
fgComputePreds(gg) ==
    With(gg, LAMBDA g :
    With([t \in Ids(g) |-> [s \in Ids(g) |-> IF s \in Blocks(g) THEN SlotCount(g, s, t) ELSE 0]],
         LAMBDA preds :
           [g EXCEPT !.preds = preds,
                     !.refs = [t \in Ids(g) |-> SumOver(preds[t], Ids(g)) + FixedRefs(g, t)]]))

\* bbIsTryBeg
bbIsTryBeg(g, b) == \E i \in 1..Len(g.eh) : g.eh[i].ebdTryBeg = b

\* a flow graph of n blocks numbered in list order, nothing computed yet
MkGraph(n, jmp, swt, ehf, stmts, flags, weight, try, hnd, eh, retBB, entryBB, hlp, lir) ==
    fgComputePreds(
      [list |-> [i \in 1..n |-> i], kind |-> [b \in 1..n |-> jmp[b].kind],
       dest |-> [b \in 1..n |-> jmp[b].dest], swt |-> swt, ehf |-> ehf, stmts |-> stmts,
       flags |-> flags, preds |-> [t \in 1..n |-> [s \in 1..n |-> 0]], refs |-> [b \in 1..n |-> 0],
       num |-> [b \in 1..n |-> b], weight |-> weight, try |-> try, hnd |-> hnd, eh |-> eh,
       genReturnBB |-> retBB, fgEntryBB |-> entryBB, throwHlp |-> hlp, lir |-> lir,
       numMax |-> n, enter |-> {},
       pre |-> [b \in 1..n |-> 0], post |-> [b \in 1..n |-> 0], rpo |-> [i \in 0..n |-> NoBlock],
       reach |-> [b \in 1..n |-> {}], idom |-> [b \in 1..n |-> NoBlock],
       dtPre |-> [i \in 0..n |-> 0], dtPost |-> [i \in 0..n |-> 0],
       domBBcount |-> 0, domsComputed |-> FALSE, fgCanRelocateEHRegions |-> TRUE,
       fatal |-> FALSE, swtDom |-> [b \in 1..n |-> NoDominantCase]])

\* the variables hold the fields of g
InitGraph(g) ==
    /\ bbList = g.list /\ bbJumpKind = g.kind /\ bbJumpDest = g.dest
    /\ bbJumpSwt = g.swt /\ bbJumpEhf = g.ehf /\ bbStmtList = g.stmts
    /\ bbFlags = g.flags /\ bbPreds = g.preds /\ bbRefs = g.refs /\ bbNum = g.num
    /\ bbWeight = g.weight /\ bbTryIndex = g.try /\ bbHndIndex = g.hnd
    /\ compHndBBtab = g.eh /\ genReturnBB = g.genReturnBB /\ fgEntryBB = g.fgEntryBB
    /\ throwHlpBlks = g.throwHlp /\ isLIR = g.lir
    /\ fgBBNumMax = g.numMax /\ fgEnterBlks = g.enter
    /\ bbPreorderNum = g.pre /\ bbPostorderNum = g.post
    /\ fgBBReversePostorder = g.rpo /\ bbReach = g.reach /\ bbIDom = g.idom
    /\ fgDomTreePreOrder = g.dtPre /\ fgDomTreePostOrder = g.dtPost
    /\ fgDomBBcount = g.domBBcount /\ fgDomsComputed = g.domsComputed
    /\ fgCanRelocateEHRegions = g.fgCanRelocateEHRegions
    /\ fatal = g.fatal /\ bbsDominant = g.swtDom

\* the compiler at work on the method g; no console reader was made
InitFrom(g) == InitGraph(g) /\ stdInReader = NoStdInReader

\* the jump kinds and targets of block b of n in the dominator specification
DomJumps(n, b) ==
    [kind : {"BBJ_ALWAYS"}, dest : 1..n]
    \cup (IF b < n THEN [kind : {"BBJ_COND"}, dest : 1..n] ELSE {})
    \cup [kind : {"BBJ_RETURN"}, dest : {NoBlock}]

\* the EH tables of the dominator specification: none, or one clause whose try
\* begins at the entry and whose handler begins at a later block, with or without
\* a filter beginning at the block after the handler's
DomEHTables(n) ==
    {<<>>} \cup
    {<<[ebdTryBeg |-> 1, ebdHndBeg |-> h, ebdFilter |-> f, ebdEnclosingTryIndex |-> 0]>> :
        <<h, f>> \in {p \in (2..n) \X ({NoBlock} \cup 3..n) : p[2] \in {NoBlock, p[1] + 1}}}

\* the flags blocks start with: the begin blocks of the EH table cannot be removed
EHFlags(n, eh) ==
    [b \in 1..n |-> IF \E i \in 1..Len(eh) : b \in {eh[i].ebdTryBeg, eh[i].ebdHndBeg, eh[i].ebdFilter}
                    THEN {"BBF_DONT_REMOVE"} ELSE {}]

\* every flow graph of up to MaxBlocks blocks
InitDomSmall ==
    \E n \in 1..MaxBlocks :
      \E body \in [1..(n - 1) -> DomJumps(n, 1)], last \in DomJumps(n, n) :
        \E eh \in DomEHTables(n) :
          \E entryBB \in {NoBlock} \cup (2..n \cap {2}) :
            /\ \E g \in {MkGraph(n, [b \in 1..n |-> IF b < n THEN body[b] ELSE last],
                                 [b \in 1..n |-> <<>>], [b \in 1..n |-> <<>>],
                                 [b \in 1..n |-> <<>>], EHFlags(n, eh), [b \in 1..n |-> 1],
                                 [b \in 1..n |-> 0], [b \in 1..n |-> 0], eh, NoBlock, entryBB, {}, FALSE)} :
                  InitFrom(g)
            /\ pc = "start"
            /\ loc = [pre |-> <<>>]

\* the diamonds entry -> A, entry -> B, A -> C, B -> C: four blocks, A, B and C in
\* any order behind the entry, which ends in a conditional jump (falling into A,
\* jumping to B) or in a switch over A and B
InitDomDiamond ==
    \E a \in 2..4, b \in 2..4, c \in 2..4 :
      /\ Cardinality({a, b, c}) = 3
      /\ \E entry \in {[kind |-> "BBJ_COND", dest |-> b], [kind |-> "BBJ_SWITCH", dest |-> NoBlock]},
            last \in [kind : {"BBJ_RETURN", "BBJ_THROW"}, dest : {NoBlock}] :
            /\ entry.kind = "BBJ_COND" => a = 2
            /\ \E g \in {MkGraph(4, [x \in 1..4 |-> IF x = 1 THEN entry
                                                   ELSE IF x = c THEN last
                                                   ELSE [kind |-> "BBJ_ALWAYS", dest |-> c]],
                                 [x \in 1..4 |-> IF x = 1 /\ entry.kind = "BBJ_SWITCH" THEN <<a, b>> ELSE <<>>],
                                 [x \in 1..4 |-> <<>>], [x \in 1..4 |-> <<>>],
                                 [x \in 1..4 |-> {}], [x \in 1..4 |-> 1],
                                 [x \in 1..4 |-> 0], [x \in 1..4 |-> 0], <<>>, NoBlock, NoBlock, {}, FALSE)} :
                  InitFrom(g)
            /\ pc = "start"
            /\ loc = [pre |-> <<>>]

InitDom == InitDomSmall \/ InitDomDiamond

-----------------------------------------------------------------------------
(* The analyses *)

\* Compiler::fgUpdateChangedFlowGraph(updates), computeDoms telling whether
\* FlowGraphUpdates::COMPUTE_DOMS is among the updates
fgUpdateChangedFlowGraph(g, computeDoms) ==
    With(fgDfsReversePostorder(fgComputeEnterBlocksSet(fgRenumberBlocks([g EXCEPT !.domsComputed = FALSE]))),
         LAMBDA g3 :
    With(IF g3.fatal THEN g3 ELSE fgComputeReachabilitySets(g3), LAMBDA g4 :
         IF computeDoms /\ ~g4.fatal THEN fgComputeDoms(g4) ELSE g4))

UpdateChangedFlowGraph ==
    /\ pc = "start"
    /\ \E computeDoms \in BOOLEAN :
          /\ \E g0 \in {G} : \E g \in {fgUpdateChangedFlowGraph(g0, computeDoms)} : SetG(g)
          /\ pc' = IF computeDoms THEN "doms" ELSE "reach"
    /\ UNCHANGED loc

NextDom == UpdateChangedFlowGraph

SpecDom == InitDom /\ [][NextDom]_vars

-----------------------------------------------------------------------------
(* Graph-theoretic yardsticks, independent of the algorithms above *)

\* the blocks reachable from the set S along successor edges without entering avoid
RECURSIVE ReachFrom(_, _, _)
ReachFrom(g, S, avoid) ==
    LET T == S \cup {t \in Blocks(g) \ avoid : \E s \in S : t \in SeqToSet(Succs(g, s))}
    IN IF T = S THEN S ELSE ReachFrom(g, T, avoid)

\* the blocks the imaginary root of fgComputeDoms precedes
SuperRootSuccs(g) ==
    ({fgFirstBB(g)} \cup EHRoots(g) \cup {b \in Blocks(g) : PredSet(g, b) = {}}) \cap Blocks(g)

\* every path from the imaginary root to b passes through a
PathDominates(g, a, b) ==
    a = b \/ b \notin ReachFrom(g, SuperRootSuccs(g) \ {a}, {a})

\* every block is reachable from the entry or an EH begin block, or has no predecessors
AllRooted(g) ==
    \A b \in Blocks(g) :
        PredSet(g, b) = {} \/ b \in ReachFrom(g, ({fgFirstBB(g)} \cup EHRoots(g)) \cap Blocks(g), {})

\* there is a path of zero or more edges from a to b
PathReaches(g, a, b) == b \in ReachFrom(g, {a}, {})

-----------------------------------------------------------------------------
(* Claims on the analyses *)

\* C3: after fgComputeDoms on a graph whose blocks are all reachable from a root or
\* predecessor-less, fgDominate(a,b) holds exactly when every path from the imaginary
\* root to b passes through a
C3_DominateIsPathDominance ==
    (pc = "doms" /\ ~fatal /\ AllRooted(G)) =>
        \A a \in Blocks(G), b \in Blocks(G) : fgDominate(G, a, b) <=> PathDominates(G, a, b)

\* a computed dominator tree in which some block strictly dominates another
C3_Witness ==
    /\ pc = "doms" /\ ~fatal /\ AllRooted(G)
    /\ \E a \in Blocks(G), b \in Blocks(G) :
          a # b /\ a # fgFirstBB(G) /\ fgDominate(G, a, b) /\ ~fgDominate(G, fgFirstBB(G), a)

\* C4: after fgComputeReachabilitySets, a's number is in b's reach set exactly when a = b
\* or a path of control-flow edges leads from a to b
C4_ReachIsPathClosure ==
    (pc = "reach" /\ ~fatal) =>
        \A a \in Blocks(G), b \in Blocks(G) : (bbNum[a] \in bbReach[b]) <=> PathReaches(G, a, b)

\* reach sets computed on a graph with a cycle and with a block that does not reach another
C4_Witness ==
    /\ pc = "reach" /\ ~fatal
    /\ \E a \in Blocks(G), b \in Blocks(G) :
          /\ a # b /\ bbNum[a] \in bbReach[b] /\ bbNum[b] \in bbReach[a]
          /\ \E c \in Blocks(G) : bbNum[c] \notin bbReach[a]

\* C5: after fgComputeDoms, fgDominate is reflexive and transitive
C5_DominateReflexiveTransitive ==
    (pc = "doms" /\ ~fatal) =>
        /\ \A b \in Blocks(G) : fgDominate(G, b, b)
        /\ \A a \in Blocks(G), b \in Blocks(G), c \in Blocks(G) :
              (fgDominate(G, a, b) /\ fgDominate(G, b, c)) => fgDominate(G, a, c)

\* a chain of three distinct blocks each dominating the next
C5_Witness ==
    /\ pc = "doms" /\ ~fatal
    /\ \E a \in Blocks(G), b \in Blocks(G), c \in Blocks(G) :
          a # b /\ b # c /\ fgDominate(G, a, b) /\ fgDominate(G, b, c)

\* C6 as stated: after fgComputeDoms the entry dominates every block it reaches
C6_EntryDominatesReachable ==
    (pc = "doms" /\ ~fatal) =>
        \A b \in Blocks(G) : PathReaches(G, fgFirstBB(G), b) => fgDominate(G, fgFirstBB(G), b)

\* C6 amended: the entry dominates every block it reaches that no EH handler or
\* filter begin block and no predecessor-less block other than the entry reaches
C6_EntryDominatesOwnBlocks ==
    (pc = "doms" /\ ~fatal) =>
        \A b \in Blocks(G) :
            (/\ PathReaches(G, fgFirstBB(G), b)
             /\ b \notin ReachFrom(G, SuperRootSuccs(G) \ {fgFirstBB(G)}, {}))
            => fgDominate(G, fgFirstBB(G), b)

\* in a method with a handler, the entry dominates another block that only it reaches
C6_Witness ==
    /\ pc = "doms" /\ ~fatal /\ compHndBBtab # <<>>
    /\ \E b \in Blocks(G) :
          /\ b # fgFirstBB(G)
          /\ PathReaches(G, fgFirstBB(G), b)
          /\ b \notin ReachFrom(G, SuperRootSuccs(G) \ {fgFirstBB(G)}, {})
          /\ fgDominate(G, fgFirstBB(G), b)

\* no noway_assert fires in fgComputeDoms on a graph whose blocks are all rooted
DomsNoFatal == (pc = "doms" /\ AllRooted(G)) => ~fatal

-----------------------------------------------------------------------------
(* Predecessor edges, statements and the block list *)

\* Compiler::fgRemoveRefPred(block, blockPred): one reference of the edge
\* blockPred -> block less; the edge goes when its duplicate count reaches zero
fgRemoveRefPred(gg, block, blockPred) ==
    With(gg, LAMBDA g :
    IF g.preds[block][blockPred] = 0 THEN [g EXCEPT !.fatal = TRUE]
    ELSE [g EXCEPT !.preds[block][blockPred] = @ - 1, !.refs[block] = @ - 1])

\* Compiler::fgAddRefPred(block, blockPred): one reference of the edge blockPred -> block more
fgAddRefPred(gg, block, blockPred) ==
    With(gg, LAMBDA g :
    [g EXCEPT !.preds[block][blockPred] = @ + 1, !.refs[block] = @ + 1])

\* fgRemoveRefPred(t, blockPred) for every t of a sequence of targets
RECURSIVE RemoveRefPreds(_, _, _)
RemoveRefPreds(gg, tt, blockPred) ==
    With(gg, LAMBDA g : With(tt, LAMBDA targets :
    IF targets = <<>> THEN g
    ELSE RemoveRefPreds(fgRemoveRefPred(g, Head(targets), blockPred), Tail(targets), blockPred)))

\* Compiler::fgRemoveBlockAsPred: the block stops being a predecessor of its successors
fgRemoveBlockAsPred(gg, block) ==
    With(gg, LAMBDA g : RemoveRefPreds(g, Slots(g, block), block))

\* BasicBlock::isEmpty: no statement besides phi definitions
isEmpty(g, b) == \A i \in 1..Len(g.stmts[b]) : g.stmts[b][i].phi

\* BasicBlock::isBBCallAlwaysPair
isBBCallAlwaysPair(g, b) ==
    g.kind[b] = "BBJ_CALLFINALLY" /\ "BBF_RETLESS_CALL" \notin g.flags[b]

\* BasicBlock::bbSetRunRarely
bbSetRunRarely(gg, b) ==
    With(gg, LAMBDA g :
    [g EXCEPT !.weight[b] = 0, !.flags[b] = @ \cup {"BBF_RUN_RARELY"}])

\* Compiler::fgRemoveEhfSuccessor(block, succ): succ leaves the successors of the
\* BBJ_EHFINALLYRET block, and block the predecessors of succ
fgRemoveEhfSuccessor(gg, block, succ) ==
    With(gg, LAMBDA g :
    IF g.kind[block] # "BBJ_EHFINALLYRET" THEN [g EXCEPT !.fatal = TRUE]
    ELSE fgRemoveRefPred([g EXCEPT !.ehf[block] = Filter(@, SeqToSet(@) \ {succ})], succ, block))

\* Compiler::fgUnlinkBlock
fgUnlinkBlock(gg, block) ==
    With(gg, LAMBDA g : [g EXCEPT !.list = Filter(@, SeqToSet(@) \ {block})])

-----------------------------------------------------------------------------
(* Unreachable block elimination *)

\* the passes after which the removal loops give up (noway_assert)
MaxRemovalPasses == 10

\* fgUnreachableBlock leaving the statements of the block in place
fgUnreachableBlock_KeepCode(gg, block) ==
    With(gg, LAMBDA g :
    IF block = g.genReturnBB THEN [g EXCEPT !.fatal = TRUE]
    ELSE IF "BBF_REMOVED" \in g.flags[block] THEN g
    ELSE IF block = fgFirstBB(g) THEN [g EXCEPT !.fatal = TRUE]
    ELSE fgRemoveBlockAsPred([g EXCEPT !.flags[block] = @ \cup {"BBF_REMOVED"}], block))

\* Compiler::fgUnreachableBlock
fgUnreachableBlock(gg, block) ==
    With(gg, LAMBDA g :
    IF block = g.genReturnBB THEN [g EXCEPT !.fatal = TRUE]
    ELSE IF "BBF_REMOVED" \in g.flags[block] THEN g
    ELSE IF block = fgFirstBB(g) THEN [g EXCEPT !.fatal = TRUE]
    ELSE fgRemoveBlockAsPred([g EXCEPT !.stmts[block] = <<>>,
                                       !.flags[block] = @ \cup {"BBF_REMOVED"}], block))

\* Compiler::fgRemoveBlock(block, /* unreachable */ true)
fgRemoveBlock(gg, block) ==
    With(gg, LAMBDA g : fgUnlinkBlock(fgUnreachableBlock(g, block), block))

\* the canRemoveBlock of fgComputeReachability (early) and the isBlockRemovable of
\* fgRemoveDeadBlocks (late)
canRemoveBlock(mode, visited, g, block) ==
    IF mode = "early" THEN g.enter \cap g.reach[block] = {}
    ELSE g.num[block] \notin visited \/ g.refs[block] = 0

\* fgRemoveEhfSuccessor(leavePredBlock, leaveBlk) for every predecessor of leaveBlk
RECURSIVE RemoveLeavePreds(_, _, _)
RemoveLeavePreds(gg, pp, leaveBlk) ==
    With(gg, LAMBDA g : With(pp, LAMBDA ps :
    IF ps = <<>> \/ g.fatal THEN g
    ELSE RemoveLeavePreds(fgRemoveEhfSuccessor(g, Head(ps), leaveBlk), Tail(ps), leaveBlk)))

\* RemoveLeaveBlk without the removal of leaveBlk
RemoveLeaveBlk_KeepTail(gg, block, leaveBlk) ==
    With(gg, LAMBDA g :
    [g EXCEPT !.kind[block] = IF @ # "BBJ_THROW" THEN "BBJ_ALWAYS" ELSE @,
              !.dest[block] = IF g.kind[block] # "BBJ_THROW" THEN leaveBlk ELSE @,
              !.flags[leaveBlk] = @ \ {"BBF_DONT_REMOVE"}])

\* the tail of the first loop of fgRemoveUnreachableBlocks, for the block of a
\* BBJ_CALLFINALLY / BBJ_ALWAYS pair: the BBJ_ALWAYS leaveBlk goes at once
RemoveLeaveBlk(gg, block, leaveBlk) ==
    With(gg, LAMBDA g :
    With([g EXCEPT !.kind[block] = IF @ # "BBJ_THROW" THEN "BBJ_ALWAYS" ELSE @,
                   !.dest[block] = IF g.kind[block] # "BBJ_THROW" THEN leaveBlk ELSE @,
                   !.flags[leaveBlk] = @ \ {"BBF_DONT_REMOVE"}],
         LAMBDA g1 : fgRemoveBlock(RemoveLeavePreds(g1, PredBlocks(g1, leaveBlk), leaveBlk), leaveBlk)))

\* the body of the first loop of fgRemoveUnreachableBlocks for one block; r holds the
\* graph, changed, hasUnreachableBlocks, the hasUnreachableBlock of fgRemoveDeadBlocks,
\* the blocks handed to fgUnreachableBlock (selected) and the blocks unlinked
RemMarkBlock(mode, visited, r, block) ==
    IF block \in r.g.throwHlp THEN r
    ELSE IF block = r.g.genReturnBB THEN r
    ELSE IF "BBF_DONT_REMOVE" \in r.g.flags[block] /\ isEmpty(r.g, block) /\ r.g.kind[block] = "BBJ_THROW"
         THEN r
    ELSE IF ~canRemoveBlock(mode, visited, r.g, block) THEN r
    ELSE With(fgUnreachableBlock(r.g, block), LAMBDA g1 :
         IF g1.fatal \/ "BBF_REMOVED" \notin g1.flags[block]
         THEN [r EXCEPT !.g = [g1 EXCEPT !.fatal = TRUE]]
         ELSE With(IF isBBCallAlwaysPair(g1, block) THEN Next(g1, block) ELSE NoBlock, LAMBDA leaveBlk :
              With(IF "BBF_DONT_REMOVE" \in g1.flags[block]
                   THEN [r EXCEPT !.g = bbSetRunRarely(
                                           [g1 EXCEPT !.flags[block] =
                                                         (@ \ {"BBF_REMOVED", "BBF_INTERNAL"}) \cup {"BBF_IMPORTED"},
                                                      !.kind[block] = "BBJ_THROW",
                                                      !.dest[block] = NoBlock], block),
                                  !.changed = @ \/ Len(Slots(g1, block)) > 0]
                   ELSE [r EXCEPT !.g = g1, !.changed = TRUE, !.hasUnreachableBlocks = TRUE],
                   LAMBDA q :
                IF leaveBlk = NoBlock
                THEN [q EXCEPT !.selected = @ \cup {block}, !.hasUnreachableBlock = TRUE]
                ELSE IF q.g.kind[leaveBlk] # "BBJ_ALWAYS"
                THEN [q EXCEPT !.g.fatal = TRUE]
                ELSE [q EXCEPT !.g = RemoveLeaveBlk(q.g, block, leaveBlk),
                               !.selected = @ \cup {block}, !.hasUnreachableBlock = TRUE,
                               !.unlinked = @ \cup {leaveBlk}])))

\* the first loop of fgRemoveUnreachableBlocks, from block to the end of the list
RemMarkLoop(mode, visited, rr, block) ==
    With(rr, LAMBDA r0 :
    Loop(LAMBDA s : With(RemMarkBlock(mode, visited, s.r, s.block), LAMBDA q :
                         [r |-> q, block |-> Next(q.g, s.block)]),
         LAMBDA s : s.block = NoBlock \/ s.r.g.fatal,
         [r |-> r0, block |-> block], Len(r0.g.list)).r)

\* the second loop of fgRemoveUnreachableBlocks: fgRemoveBlock on the blocks marked
\* BBF_REMOVED; an unlinked block keeps its bbNext
RemUnlinkLoop(rr, block) ==
    With(rr, LAMBDA r0 :
    Loop(LAMBDA s :
           IF "BBF_REMOVED" \in s.r.g.flags[s.block]
           THEN With(fgRemoveBlock(s.r.g, s.block), LAMBDA g1 :
                     [r |-> [s.r EXCEPT !.g = g1, !.unlinked = @ \cup {s.block}],
                      block |-> IF isBBCallAlwaysPair(g1, s.block) /\ Next(s.r.g, s.block) # NoBlock
                                THEN Next(g1, Next(s.r.g, s.block))
                                ELSE Next(s.r.g, s.block)])
           ELSE [s EXCEPT !.block = Next(s.r.g, s.block)],
         LAMBDA s : s.block = NoBlock \/ s.r.g.fatal,
         [r |-> r0, block |-> block], Len(r0.g.list)).r)

\* Compiler::fgRemoveUnreachableBlocks(canRemoveBlock), changed cleared on entry
fgRemoveUnreachableBlocks(mode, visited, rr) ==
    With(rr, LAMBDA r0 :
    With(RemMarkLoop(mode, visited, [r0 EXCEPT !.changed = FALSE, !.hasUnreachableBlocks = FALSE],
                     fgFirstBB(r0.g)),
         LAMBDA r : IF r.hasUnreachableBlocks THEN RemUnlinkLoop(r, fgFirstBB(r.g)) ELSE r))

\* the record the loops over fgRemoveUnreachableBlocks start from
RemStart(g) ==
    [g |-> g, changed |-> FALSE, hasUnreachableBlocks |-> FALSE, hasUnreachableBlock |-> FALSE,
     selected |-> {}, unlinked |-> {}, passes |-> 0, capped |-> FALSE]

\* one turn of the do-while loop of fgComputeReachability, which gives up when
\* passNum exceeds limit; stop tells that the loop is left
ReachabilityPass(limit, s) ==
    IF s.passNum > limit THEN [s EXCEPT !.r.g.fatal = TRUE, !.r.capped = TRUE, !.stop = TRUE]
    ELSE With(fgDfsReversePostorder(fgComputeEnterBlocksSet(fgRenumberBlocks(s.r.g))), LAMBDA g1 :
         IF g1.fatal THEN [s EXCEPT !.r.g = g1, !.stop = TRUE]
         ELSE With(fgRemoveUnreachableBlocks("early", {},
                                             [s.r EXCEPT !.g = fgComputeReachabilitySets(g1),
                                                         !.passes = @ + 1]),
                   LAMBDA q : [r |-> q, passNum |-> s.passNum + 1,
                               stop |-> ~(q.changed /\ ~q.g.fatal)]))

\* the loop of fgComputeReachability giving up one pass early
ReachabilityLoop_OneLess(rr, passNum) ==
    Loop(LAMBDA s : ReachabilityPass(MaxRemovalPasses - 1, s), LAMBDA s : s.stop,
         [r |-> rr, passNum |-> passNum, stop |-> FALSE], MaxRemovalPasses + 1).r

\* the do-while loop of fgComputeReachability; passes counts the calls of
\* fgRemoveUnreachableBlocks, capped tells that the noway_assert of the loop fired
ReachabilityLoop(rr, passNum) ==
    Loop(LAMBDA s : ReachabilityPass(MaxRemovalPasses, s), LAMBDA s : s.stop,
         [r |-> rr, passNum |-> passNum, stop |-> FALSE], MaxRemovalPasses + 1).r

\* Compiler::fgComputeReachability
fgComputeReachability(gg) ==
    With(ReachabilityLoop(RemStart(gg), 1), LAMBDA r :
         IF r.g.fatal THEN r ELSE [r EXCEPT !.g = fgComputeDoms(r.g)])

\* the handlers and filters fgRemoveDeadBlocks pushes for a block that begins a try
RECURSIVE TryHandlers(_, _, _)
TryHandlers(g, block, tryIndex) ==
    <<g.eh[tryIndex].ebdHndBeg>>
    \o (IF HasFilter(g.eh[tryIndex]) THEN <<g.eh[tryIndex].ebdFilter>> ELSE <<>>)
    \o (IF g.eh[tryIndex].ebdEnclosingTryIndex = 0 THEN <<>>
        ELSE IF g.eh[g.eh[tryIndex].ebdEnclosingTryIndex].ebdTryBeg # block THEN <<>>
        ELSE TryHandlers(g, block, g.eh[tryIndex].ebdEnclosingTryIndex))

\* the worklist loop of fgRemoveDeadBlocks
VisitWorklist(g, ww, vv) ==
    Loop(LAMBDA s :
           IF g.num[Head(s.worklist)] \in s.visitedBlocks THEN [s EXCEPT !.worklist = Tail(@)]
           ELSE [worklist |-> Tail(s.worklist) \o Succs(g, Head(s.worklist))
                                \o (IF bbIsTryBeg(g, Head(s.worklist))
                                    THEN TryHandlers(g, Head(s.worklist), g.try[Head(s.worklist)])
                                    ELSE <<>>),
                 visitedBlocks |-> s.visitedBlocks \cup {g.num[Head(s.worklist)]}],
         LAMBDA s : s.worklist = <<>>,
         [worklist |-> ww, visitedBlocks |-> vv],
         Len(ww) + FlowSize(g) + 2 * Len(g.eh) * Cardinality(Ids(g))).visitedBlocks

\* the do-while loop of fgRemoveDeadBlocks
DeadBlocksLoop(visited, rr, iterationCount) ==
    Loop(LAMBDA s :
           IF s.iterationCount > MaxRemovalPasses
           THEN [s EXCEPT !.r.g.fatal = TRUE, !.r.capped = TRUE, !.stop = TRUE]
           ELSE With(fgRemoveUnreachableBlocks("late", visited, [s.r EXCEPT !.passes = @ + 1]),
                     LAMBDA q : [r |-> q, iterationCount |-> s.iterationCount + 1,
                                 stop |-> ~(q.changed /\ ~q.g.fatal)]),
         LAMBDA s : s.stop,
         [r |-> rr, iterationCount |-> iterationCount, stop |-> FALSE], MaxRemovalPasses + 1).r

\* Compiler::fgRemoveDeadBlocks
fgRemoveDeadBlocks(gg) ==
    With(gg, LAMBDA g :
         DeadBlocksLoop(VisitWorklist(g, <<fgFirstBB(g)>>, {}), RemStart(g), 1))

-----------------------------------------------------------------------------
(* The elimination of unreachable blocks, early and late *)

\* a statement of a block: an identity and whether it is a phi definition
Stmt(id, phi) == [id |-> id, phi |-> phi]

\* the jump kinds and targets of block b of n in the plain flow graphs
RemJumps(n, b) ==
    [kind : {"BBJ_ALWAYS"}, dest : 1..n]
    \cup (IF b = 1 /\ n > 1 THEN [kind : {"BBJ_COND"}, dest : 1..n] ELSE {})
    \cup [kind : {"BBJ_RETURN", "BBJ_THROW"}, dest : {NoBlock}]

\* the EH tables of the plain flow graphs: none, or one clause whose try begins at
\* the first or second block and whose handler begins at the last block
RemEHTables(n) ==
    {<<>>} \cup
    {<<[ebdTryBeg |-> t, ebdHndBeg |-> n, ebdFilter |-> NoBlock, ebdEnclosingTryIndex |-> 0]>> :
        t \in {1, 2} \cap 1..(n - 1)}

\* plain flow graphs: jumps, returns and throws, at most one try with its handler,
\* and one of: a canonical return block, throw helper blocks, a block that must stay
InitRemPlain ==
    \E n \in 2..MaxBlocks :
      \E first \in RemJumps(n, 1), rest \in [2..n -> RemJumps(n, n)] :
        \E eh \in RemEHTables(n), special \in {"none", "ret", "hlp", "keep"} :
          \E g \in {MkGraph(n,
                            [b \in 1..n |-> IF b = 1 THEN first ELSE rest[b]],
                            [b \in 1..n |-> <<>>], [b \in 1..n |-> <<>>],
                            [b \in 1..n |-> <<Stmt(b, FALSE)>>],
                            [b \in 1..n |-> EHFlags(n, eh)[b]
                                            \cup (IF special = "keep" /\ b = 2 THEN {"BBF_DONT_REMOVE"} ELSE {})],
                            [b \in 1..n |-> 1],
                            [b \in 1..n |-> IF eh # <<>> /\ b = eh[1].ebdTryBeg THEN 1 ELSE 0],
                            [b \in 1..n |-> IF eh # <<>> /\ b = n THEN 1 ELSE 0],
                            eh,
                            IF special = "ret" /\ rest[2].kind = "BBJ_RETURN" /\ (eh = <<>> \/ eh[1].ebdTryBeg # 2)
                            THEN 2 ELSE NoBlock,
                            NoBlock,
                            IF special = "hlp" THEN {b \in 2..n : rest[b].kind = "BBJ_THROW"} ELSE {},
                            FALSE)} :
            InitFrom(g)

\* a method with a try/finally whose finally (BB07) is called from two
\* BBJ_CALLFINALLY / BBJ_ALWAYS pairs (BB02, BB03 and BB04, BB05):
\* BB01 begins the try, BB06 follows the second pair; the calls of a finally that
\* does not return are BBF_RETLESS_CALL and have no pair tail. With fin = "deadret"
\* the finally begins with a throw and its BBJ_EHFINALLYRET block (BB08) has become
\* unreachable; with keepCall the second call block is BBF_DONT_REMOVE
InitRemFinally ==
    \E tE \in {2, 4, 6}, t2 \in {2, 4, 6}, tL \in {2, 6} :
      \E x \in {[kind |-> "BBJ_ALWAYS", dest |-> 6], [kind |-> "BBJ_ALWAYS", dest |-> 4],
                [kind |-> "BBJ_RETURN", dest |-> NoBlock]} :
        \E keepTails \in BOOLEAN, keepCall \in BOOLEAN, fin \in {"ret", "throw", "deadret"} :
          \E n \in {IF fin = "deadret" THEN 8 ELSE 7} :
          \E g \in {MkGraph(n,
                            <<[kind |-> "BBJ_ALWAYS", dest |-> tE],
                              [kind |-> "BBJ_CALLFINALLY", dest |-> 7],
                              [kind |-> "BBJ_ALWAYS", dest |-> t2],
                              [kind |-> "BBJ_CALLFINALLY", dest |-> 7],
                              [kind |-> "BBJ_ALWAYS", dest |-> tL],
                              x,
                              [kind |-> IF fin = "ret" THEN "BBJ_EHFINALLYRET" ELSE "BBJ_THROW",
                               dest |-> NoBlock]>>
                            \o (IF n = 8 THEN <<[kind |-> "BBJ_EHFINALLYRET", dest |-> NoBlock]>> ELSE <<>>),
                            [b \in 1..n |-> <<>>],
                            [b \in 1..n |-> IF (b = 7 /\ fin = "ret") \/ b = 8 THEN <<3, 5>> ELSE <<>>],
                            [b \in 1..n |-> <<Stmt(b, FALSE)>>],
                            [b \in 1..n |-> IF b \in {1, 7} THEN {"BBF_DONT_REMOVE"}
                                            ELSE IF b \in {3, 5} /\ fin # "throw"
                                            THEN {"BBF_KEEP_BBJ_ALWAYS"}
                                                 \cup (IF keepTails THEN {"BBF_DONT_REMOVE"} ELSE {})
                                            ELSE IF b \in {2, 4}
                                            THEN (IF fin = "throw" THEN {"BBF_RETLESS_CALL"} ELSE {})
                                                 \cup (IF keepCall /\ b = 4 THEN {"BBF_DONT_REMOVE"} ELSE {})
                                            ELSE {}],
                            [b \in 1..n |-> 1],
                            [b \in 1..n |-> IF b = 1 THEN 1 ELSE 0],
                            [b \in 1..n |-> IF b \in {7, 8} THEN 1 ELSE 0],
                            <<[ebdTryBeg |-> 1, ebdHndBeg |-> 7, ebdFilter |-> NoBlock,
                               ebdEnclosingTryIndex |-> 0]>>,
                            NoBlock, NoBlock, {}, FALSE)} :
            InitFrom(g)

\* the most call-finally pairs in a chain
MaxPairs == 10

\* m nested try/finally regions that begin at BB01, which throws; the finally of
\* region j is the one-block handler BB(2m+1+j). The pairs that leave the regions come
\* in reverse order: the pair (BB(2k), BB(2k+1)) calls the finally of region m+1-k and
\* its tail goes on to the call block of the pair before it, the tail of the first
\* pair back to BB01. Nothing leads to the call block of the last pair
InitRemChain ==
    \E m \in (MaxRemovalPasses - 2)..MaxPairs :
      \E g \in {MkGraph(3 * m + 1,
                        [b \in 1..(3 * m + 1) |->
                           IF b = 1 THEN [kind |-> "BBJ_THROW", dest |-> NoBlock]
                           ELSE IF b > 2 * m + 1 THEN [kind |-> "BBJ_EHFINALLYRET", dest |-> NoBlock]
                           ELSE IF b % 2 = 0
                           THEN [kind |-> "BBJ_CALLFINALLY", dest |-> 2 * m + 1 + (m + 1 - (b \div 2))]
                           ELSE [kind |-> "BBJ_ALWAYS", dest |-> IF b = 3 THEN 1 ELSE b - 3]],
                        [b \in 1..(3 * m + 1) |-> <<>>],
                        [b \in 1..(3 * m + 1) |->
                           IF b > 2 * m + 1 THEN <<2 * (m + 1 - (b - 2 * m - 1)) + 1>> ELSE <<>>],
                        [b \in 1..(3 * m + 1) |-> <<Stmt(b, FALSE)>>],
                        [b \in 1..(3 * m + 1) |->
                           IF b = 1 \/ b > 2 * m + 1 THEN {"BBF_DONT_REMOVE"}
                           ELSE IF b % 2 = 1 THEN {"BBF_KEEP_BBJ_ALWAYS"} ELSE {}],
                        [b \in 1..(3 * m + 1) |-> 1],
                        [b \in 1..(3 * m + 1) |-> IF b = 1 THEN 1 ELSE 0],
                        [b \in 1..(3 * m + 1) |-> IF b > 2 * m + 1 THEN b - 2 * m - 1 ELSE 0],
                        [j \in 1..m |-> [ebdTryBeg |-> 1, ebdHndBeg |-> 2 * m + 1 + j,
                                         ebdFilter |-> NoBlock,
                                         ebdEnclosingTryIndex |-> IF j < m THEN j + 1 ELSE 0]],
                        NoBlock, NoBlock, {}, FALSE)} :
        InitFrom(g)

\* what an elimination leaves in loc: the list, flags and kinds it started from,
\* the blocks it handed to fgUnreachableBlock and the blocks it unlinked, the
\* passes it ran, whether it gave up, and what its last pass reported
RemFacts(g0, r) ==
    [pre |-> [list |-> g0.list, flags |-> g0.flags, kind |-> g0.kind, stmts |-> g0.stmts],
     selected |-> r.selected, unlinked |-> r.unlinked,
     hasUnreachableBlock |-> r.hasUnreachableBlock,
     passes |-> r.passes, capped |-> r.capped, changed |-> r.changed]

InitRem ==
    /\ InitRemPlain \/ InitRemFinally \/ InitRemChain
    /\ pc = "start"
    /\ loc = [pre |-> <<>>]

\* the phase that computes reachability and dominators, removing unreachable blocks
ComputeReachability ==
    /\ pc = "start"
    /\ \E g0 \in {G} : \E r \in {fgComputeReachability(g0)} :
          /\ SetG(r.g)
          /\ loc' = RemFacts(g0, r)
    /\ pc' = "early"

\* the late removal of dead blocks
RemoveDeadBlocks ==
    /\ pc = "start"
    /\ \E g0 \in {G} : \E r \in {fgRemoveDeadBlocks(g0)} :
          /\ SetG(r.g)
          /\ loc' = RemFacts(g0, r)
    /\ pc' = "late"

NextRem == ComputeReachability \/ RemoveDeadBlocks

SpecRem == InitRem /\ [][NextRem]_vars

\* no noway_assert fires in the elimination but the one on the number of passes
RemNoFatal == fatal => (pc \in {"early", "late"} /\ loc.capped)

-----------------------------------------------------------------------------
(* Claims on the elimination *)

\* the roots of the late elimination's contract: the entry block and the blocks
\* that begin a try, a handler or a filter
RemRoots(g) ==
    ({fgFirstBB(g)} \cup EHRoots(g) \cup {g.eh[i].ebdTryBeg : i \in 1..Len(g.eh)}) \cap Blocks(g)

\* the edges from a block that begins a try to the begin blocks of its handler and filter
TryEdges(g, b) ==
    {t \in Blocks(g) : \E i \in 1..Len(g.eh) : g.eh[i].ebdTryBeg = b /\ t \in {g.eh[i].ebdHndBeg, g.eh[i].ebdFilter}}

\* the blocks reachable from S by successor edges and try-begin to handler edges
RECURSIVE RemReachFrom(_, _)
RemReachFrom(g, SS) ==
    With(SS, LAMBDA S :
    With(S \cup {t \in Blocks(g) : \E s \in S : t \in SeqToSet(Succs(g, s)) \cup TryEdges(g, s)},
         LAMBDA T : IF T = S THEN S ELSE RemReachFrom(g, T)))

\* the blocks the elimination keeps whatever its predicate says
RemExempt(g, b) ==
    b \in g.throwHlp \/ b = g.genReturnBB \/ "BBF_DONT_REMOVE" \in g.flags[b]

\* C1: after fgRemoveDeadBlocks every block still in the list is reachable, by
\* successor edges and try-begin to handler/filter edges, from the entry block and
\* the EH begin blocks; the throw helpers, the canonical return block and the
\* blocks flagged BBF_DONT_REMOVE are left out of the statement
C1_DeadBlocksLeaveReachable ==
    (pc = "late" /\ ~fatal) =>
        \A b \in Blocks(G) : RemExempt(G, b) \/ b \in RemReachFrom(G, RemRoots(G))

\* C7: after fgComputeReachability, fgDominate(a,b) implies fgReachable(a,b)
C7_DominateImpliesReachable ==
    (pc = "early" /\ ~fatal) =>
        \A a \in Blocks(G), b \in Blocks(G) : fgDominate(G, a, b) => fgReachable(G, a, b)

\* fgComputeReachability unlinked a block and left a block that dominates another
C7_Witness ==
    /\ pc = "early" /\ ~fatal
    /\ loc.unlinked # {}
    /\ \E a \in Blocks(G), b \in Blocks(G) : a # b /\ fgDominate(G, a, b) /\ fgReachable(G, a, b)

\* the blocks the elimination is said never to unlink
RemProtected(b) ==
    \/ b \in throwHlpBlks
    \/ b = genReturnBB
    \/ b = Head(loc.pre.list)
    \/ "BBF_DONT_REMOVE" \in loc.pre.flags[b]

\* a BBF_DONT_REMOVE block handed to fgUnreachableBlock was converted in place
RemConverted(b) ==
    /\ b \in Blocks(G)
    /\ bbStmtList[b] = <<>>
    /\ bbJumpKind[b] = "BBJ_THROW"
    /\ Succs(G, b) = <<>>
    /\ "BBF_REMOVED" \notin bbFlags[b]
    /\ "BBF_RUN_RARELY" \in bbFlags[b]

\* the BBJ_ALWAYS block of a BBJ_CALLFINALLY / BBJ_ALWAYS pair whose
\* BBJ_CALLFINALLY block was handed to fgUnreachableBlock
RemPairTailOfSelected(b) ==
    \E i \in 1..(Len(loc.pre.list) - 1) :
        /\ loc.pre.list[i + 1] = b
        /\ loc.pre.list[i] \in loc.selected
        /\ loc.pre.kind[loc.pre.list[i]] = "BBJ_CALLFINALLY"
        /\ "BBF_RETLESS_CALL" \notin loc.pre.flags[loc.pre.list[i]]

\* C10 as stated: the elimination, early or late, unlinks no throw helper, not the
\* canonical return block, not the entry block and no BBF_DONT_REMOVE block, and a
\* BBF_DONT_REMOVE block it selects stays, emptied, BBJ_THROW without successors,
\* BBF_REMOVED cleared and BBF_RUN_RARELY set
C10_NeverUnlinksProtected ==
    (pc \in {"early", "late"} /\ ~fatal) =>
        /\ \A b \in SeqToSet(loc.pre.list) : RemProtected(b) => b \in Blocks(G)
        /\ \A b \in loc.selected : "BBF_DONT_REMOVE" \in loc.pre.flags[b] => RemConverted(b)

\* C10 amended: the same, but for the BBJ_ALWAYS tail of a call-finally pair whose
\* BBJ_CALLFINALLY block is selected: the tail loses BBF_DONT_REMOVE and is unlinked
C10_NeverUnlinksProtectedButPairTail ==
    (pc \in {"early", "late"} /\ ~fatal) =>
        /\ \A b \in SeqToSet(loc.pre.list) :
              (RemProtected(b) /\ ~RemPairTailOfSelected(b)) => b \in Blocks(G)
        /\ \A b \in SeqToSet(loc.pre.list) :
              ("BBF_DONT_REMOVE" \in loc.pre.flags[b] /\ RemPairTailOfSelected(b)) => b \notin Blocks(G)
        /\ \A b \in loc.selected : "BBF_DONT_REMOVE" \in loc.pre.flags[b] => RemConverted(b)

\* an elimination that converted a BBF_DONT_REMOVE block holding a statement and
\* that unlinked another block
C10_Witness ==
    /\ pc \in {"early", "late"} /\ ~fatal
    /\ loc.unlinked # {}
    /\ \E b \in loc.selected :
          "BBF_DONT_REMOVE" \in loc.pre.flags[b] /\ loc.pre.stmts[b] # <<>> /\ RemConverted(b)

-----------------------------------------------------------------------------
(* Jump-table and predecessor-list helpers of the simplifier *)

\* Compiler::fgReplacePred(block, oldPred, newPred): the edge oldPred -> block gets
\* newPred as its source and keeps its duplicate count
fgReplacePred(gg, block, oldPred, newPred) ==
    With(gg, LAMBDA g :
    IF g.preds[block][oldPred] = 0 \/ oldPred = newPred THEN g
    ELSE [g EXCEPT !.preds[block] = [@ EXCEPT ![newPred] = @ + g.preds[block][oldPred], ![oldPred] = 0]])

\* a sequence with every occurrence of old replaced by new
ReplaceIn(s, old, new) == [i \in 1..Len(s) |-> IF s[i] = old THEN new ELSE s[i]]

\* n references of the edge blockPred -> block more
RECURSIVE AddRefPreds(_, _, _, _)
AddRefPreds(gg, block, blockPred, n) ==
    With(gg, LAMBDA g :
    IF n = 0 THEN g ELSE AddRefPreds(fgAddRefPred(g, block, blockPred), block, blockPred, n - 1))

\* n references of the edge blockPred -> block less
RECURSIVE DropRefPreds(_, _, _, _)
DropRefPreds(gg, block, blockPred, n) ==
    With(gg, LAMBDA g :
    IF n = 0 THEN g ELSE DropRefPreds(fgRemoveRefPred(g, block, blockPred), block, blockPred, n - 1))

\* Compiler::fgReplaceJumpTarget(block, newTarget, oldTarget): the jumps of block to
\* oldTarget go to newTarget (a fall-through is not a jump)
fgReplaceJumpTarget(gg, block, newTarget, oldTarget) ==
    With(gg, LAMBDA g :
    CASE g.kind[block] \in {"BBJ_ALWAYS", "BBJ_COND", "BBJ_CALLFINALLY", "BBJ_EHCATCHRET", "BBJ_EHFILTERRET"} ->
             IF g.dest[block] # oldTarget THEN g
             ELSE fgAddRefPred(fgRemoveRefPred([g EXCEPT !.dest[block] = newTarget], oldTarget, block),
                               newTarget, block)
      [] g.kind[block] = "BBJ_SWITCH" ->
             With(Cardinality({i \in 1..Len(g.swt[block]) : g.swt[block][i] = oldTarget}), LAMBDA n :
                  AddRefPreds(DropRefPreds([g EXCEPT !.swt[block] = ReplaceIn(@, oldTarget, newTarget)],
                                           oldTarget, block, n),
                              newTarget, block, n))
      [] g.kind[block] = "BBJ_EHFINALLYRET" ->
             With(Cardinality({i \in 1..Len(g.ehf[block]) : g.ehf[block][i] = oldTarget}), LAMBDA n :
                  AddRefPreds(DropRefPreds([g EXCEPT !.ehf[block] = ReplaceIn(@, oldTarget, newTarget)],
                                           oldTarget, block, n),
                              newTarget, block, n))
      [] OTHER -> g)

\* fgReplaceJumpTarget(predBlock, newTarget, oldTarget) for every predBlock of a sequence
RECURSIVE ReplaceJumpTargets(_, _, _, _)
ReplaceJumpTargets(gg, pp, newTarget, oldTarget) ==
    With(gg, LAMBDA g : With(pp, LAMBDA preds :
    IF preds = <<>> THEN g
    ELSE ReplaceJumpTargets(fgReplaceJumpTarget(g, Head(preds), newTarget, oldTarget),
                            Tail(preds), newTarget, oldTarget)))

\* fgReplacePred(t, oldPred, newPred) for every t of a sequence of targets
RECURSIVE ReplacePreds(_, _, _, _)
ReplacePreds(gg, tt, oldPred, newPred) ==
    With(gg, LAMBDA g : With(tt, LAMBDA targets :
    IF targets = <<>> THEN g
    ELSE ReplacePreds(fgReplacePred(g, Head(targets), oldPred, newPred), Tail(targets), oldPred, newPred)))

\* Compiler::fgChangeSwitchBlock(oldSwitchBlock, newSwitchBlock)
fgChangeSwitchBlock(gg, oldSwitchBlock, newSwitchBlock) ==
    With(gg, LAMBDA g : ReplacePreds(g, Uniq(g.swt[newSwitchBlock]), oldSwitchBlock, newSwitchBlock))

\* Compiler::fgChangeEhfBlock(oldBlock, newBlock)
fgChangeEhfBlock(gg, oldBlock, newBlock) ==
    With(gg, LAMBDA g : ReplacePreds(g, Uniq(g.ehf[newBlock]), oldBlock, newBlock))

\* the conditional or switch jump that ends a block is deleted, or replaced by the
\* side effects of its tree
RemoveJumpStmt(gg, block) ==
    With(gg, LAMBDA g :
    With(g.stmts[block], LAMBDA ss :
    IF ss = <<>> THEN [g EXCEPT !.fatal = TRUE]
    ELSE IF ~ss[Len(ss)].test THEN [g EXCEPT !.fatal = TRUE]
    ELSE IF ss[Len(ss)].se
         THEN [g EXCEPT !.stmts[block] = [ss EXCEPT ![Len(ss)].test = FALSE]]
         ELSE [g EXCEPT !.stmts[block] = SubSeq(ss, 1, Len(ss) - 1)]))

-----------------------------------------------------------------------------
(* The rewrites of the simplifier *)

\* Compiler::fgRemoveConditionalJump
fgRemoveConditionalJump(gg, block) ==
    With(gg, LAMBDA g :
    With(Next(g, block), LAMBDA bNext :
    IF g.kind[block] # "BBJ_COND" \/ bNext = NoBlock \/ g.dest[block] # bNext
    THEN [g EXCEPT !.fatal = TRUE]
    ELSE IF g.preds[bNext][block] # 2 THEN [g EXCEPT !.fatal = TRUE]
    ELSE RemoveJumpStmt([g EXCEPT !.kind[block] = "BBJ_ALWAYS",
                                  !.flags[block] = @ \cup {"BBF_NONE_QUIRK"},
                                  !.refs[bNext] = @ - 1,
                                  !.preds[bNext][block] = @ - 1], block)))

\* Compiler::fgOptimizeBranchToNext
fgOptimizeBranchToNext(gg, block, bNext) ==
    With(RemoveJumpStmt(gg, block), LAMBDA g :
    IF g.fatal THEN g
    ELSE IF g.refs[bNext] <= 1 THEN [g EXCEPT !.fatal = TRUE]
    ELSE fgRemoveRefPred([g EXCEPT !.kind[block] = "BBJ_ALWAYS"], bNext, block))

\* BasicBlock::sameTryRegion is not asked, or answers yes
TryRegionAllows(g, block, bDest) == ~(g.try[bDest] # 0 /\ g.try[block] # g.try[bDest])

\* fgOptimizeBranchToEmptyUnconditional leaving block among the predecessors of bDest
fgOptimizeBranchToEmptyUnconditional_KeepPred(gg, block, bDest) ==
    With(gg, LAMBDA g :
    IF \/ "BBF_REMOVED" \in g.flags[bDest]
       \/ /\ TryRegionAllows(g, block, bDest)
          /\ "BBF_REMOVED" \notin g.flags[g.dest[bDest]]
          /\ "BBF_CLONED_FINALLY_BEGIN" \notin g.flags[bDest]
    THEN [g |-> fgAddRefPred([g EXCEPT !.dest[block] = g.dest[bDest]], g.dest[bDest], block),
          result |-> TRUE]
    ELSE [g |-> g, result |-> FALSE])

\* fgOptimizeBranchToEmptyUnconditional moving the edge and leaving the jump of
\* block where it was
fgOptimizeBranchToEmptyUnconditional_KeepJump(gg, block, bDest) ==
    With(gg, LAMBDA g :
    IF \/ "BBF_REMOVED" \in g.flags[bDest]
       \/ /\ TryRegionAllows(g, block, bDest)
          /\ "BBF_REMOVED" \notin g.flags[g.dest[bDest]]
          /\ "BBF_CLONED_FINALLY_BEGIN" \notin g.flags[bDest]
    THEN [g |-> fgAddRefPred(fgRemoveRefPred(g, bDest, block), g.dest[bDest], block),
          result |-> TRUE]
    ELSE [g |-> g, result |-> FALSE])

\* Compiler::fgOptimizeBranchToEmptyUnconditional: the graph and the value returned
fgOptimizeBranchToEmptyUnconditional(gg, block, bDest) ==
    With(gg, LAMBDA g :
    IF \/ "BBF_REMOVED" \in g.flags[bDest]
       \/ /\ TryRegionAllows(g, block, bDest)
          /\ "BBF_REMOVED" \notin g.flags[g.dest[bDest]]
          /\ "BBF_CLONED_FINALLY_BEGIN" \notin g.flags[bDest]
    THEN [g |-> fgAddRefPred(fgRemoveRefPred([g EXCEPT !.dest[block] = g.dest[bDest]], bDest, block),
                             g.dest[bDest], block),
          result |-> TRUE]
    ELSE [g |-> g, result |-> FALSE])

\* the loop of fgOptimizeSwitchBranches going on to the next entry after it has
\* replaced one, without the goto REPEAT_SWITCH
RECURSIVE SwitchThread_NoRepeat(_, _, _, _, _)
SwitchThread_NoRepeat(gg, block, i, returnvalue, fuel) ==
    With(gg, LAMBDA g :
    IF g.fatal \/ i > Len(g.swt[block]) THEN [g |-> g, result |-> returnvalue, diverged |-> FALSE]
    ELSE With(g.swt[block][i], LAMBDA bDest :
         IF /\ isEmpty(g, bDest) /\ g.kind[bDest] = "BBJ_ALWAYS" /\ g.dest[bDest] # bDest
            /\ TryRegionAllows(g, block, bDest)
         THEN SwitchThread_NoRepeat(fgAddRefPred(fgRemoveRefPred([g EXCEPT !.swt[block][i] = g.dest[bDest]],
                                                                 bDest, block),
                                                 g.dest[bDest], block),
                                    block, i + 1, TRUE, fuel)
         ELSE SwitchThread_NoRepeat(g, block, i + 1, returnvalue, fuel)))

\* the do-while loop of fgOptimizeSwitchBranches with its REPEAT_SWITCH label, at
\* entry i of the jump table; fuel is what is left of MaxRewrites
RECURSIVE SwitchThread(_, _, _, _, _)
SwitchThread(gg, block, i, returnvalue, fuel) ==
    With(gg, LAMBDA g :
    IF g.fatal \/ i > Len(g.swt[block]) THEN [g |-> g, result |-> returnvalue, diverged |-> FALSE]
    ELSE With(g.swt[block][i], LAMBDA bDest :
         IF /\ isEmpty(g, bDest) /\ g.kind[bDest] = "BBJ_ALWAYS" /\ g.dest[bDest] # bDest
            /\ TryRegionAllows(g, block, bDest)
         THEN IF fuel = 0 THEN [g |-> g, result |-> TRUE, diverged |-> TRUE]
              ELSE SwitchThread(fgAddRefPred(fgRemoveRefPred([g EXCEPT !.swt[block][i] = g.dest[bDest]],
                                                             bDest, block),
                                             g.dest[bDest], block),
                                block, i, TRUE, fuel - 1)
         ELSE SwitchThread(g, block, i + 1, returnvalue, fuel)))

\* fgOptimizeSwitchBranches leaving GT_SWITCH(switchVal) at the end of the block
SwitchToCond_KeepsSwitch(gg, block) == gg

\* fgOptimizeSwitchBranches testing the selector for inequality
SwitchToCond_Inequality(gg, block) ==
    With(gg, LAMBDA g :
    With(g.stmts[block], LAMBDA ss :
    IF ss = <<>> THEN [g EXCEPT !.fatal = TRUE]
    ELSE [g EXCEPT !.stmts[block] = [ss EXCEPT ![Len(ss)].tree = "GT_JTRUE(GT_NE(switchVal, 0))"]]))

\* fgOptimizeSwitchBranches: GT_SWITCH(switchVal) becomes GT_JTRUE(GT_EQ(switchVal, 0))
SwitchToCond(gg, block) ==
    With(gg, LAMBDA g :
    With(g.stmts[block], LAMBDA ss :
    IF ss = <<>> THEN [g EXCEPT !.fatal = TRUE]
    ELSE IF ss[Len(ss)].tree # "GT_SWITCH(switchVal)" THEN [g EXCEPT !.fatal = TRUE]
    ELSE [g EXCEPT !.stmts[block] = [ss EXCEPT ![Len(ss)].tree = "GT_JTRUE(GT_EQ(switchVal, 0))"]]))

\* Compiler::fgOptimizeSwitchBranches: the graph, the value returned, and whether
\* the loop over the jump table was still running when the fuel ran out
fgOptimizeSwitchBranches(gg, block, fuel) ==
    With(SwitchThread(gg, block, 1, FALSE, fuel), LAMBDA t :
    IF t.diverged \/ t.g.fatal THEN t
    ELSE With(t.g, LAMBDA g : With(g.swt[block], LAMBDA jmpTab :
         IF Len(Uniq(jmpTab)) = 1
         THEN [t EXCEPT !.g = RemoveRefPreds([RemoveJumpStmt(g, block) EXCEPT
                                                 !.kind[block] = "BBJ_ALWAYS",
                                                 !.dest[block] = jmpTab[1],
                                                 !.swt[block] = <<>>],
                                             Tail(jmpTab), block),
                        !.result = TRUE]
         ELSE IF Len(jmpTab) = 2 /\ Next(g, block) = jmpTab[2]
         THEN [t EXCEPT !.g = SwitchToCond([g EXCEPT !.kind[block] = "BBJ_COND",
                                                     !.dest[block] = jmpTab[1],
                                                     !.swt[block] = <<>>], block),
                        !.result = TRUE]
         ELSE t)))

-----------------------------------------------------------------------------
(* Statement lists as the linked lists they are: the next link ends in null at
   the last statement, the prev link of the first statement designates the last *)

NoStmt == 0

\* the links of the statements of a block, whose ids are all different
LinkStmts(ss) ==
    [nxt |-> [i \in 1..Len(ss) |-> IF i < Len(ss) THEN ss[i + 1].id ELSE NoStmt],
     prv |-> [i \in 1..Len(ss) |-> IF i > 1 THEN ss[i - 1].id ELSE ss[Len(ss)].id]]

\* the statements of block and bNext as two linked lists: the links by statement
\* id, the statement of each id, and the bbStmtList of the two blocks
StmtLists(ss1, ss2) ==
    With(ss1 \o ss2, LAMBDA all :
    With(LinkStmts(ss1), LAMBDA k1 : With(LinkStmts(ss2), LAMBDA k2 :
    With([id \in {all[i].id : i \in 1..Len(all)} |-> CHOOSE i \in 1..Len(all) : all[i].id = id],
         LAMBDA at :
         [of |-> [id \in DOMAIN at |-> all[at[id]]],
          nxt |-> [id \in DOMAIN at |-> IF at[id] <= Len(ss1) THEN k1.nxt[at[id]]
                                        ELSE k2.nxt[at[id] - Len(ss1)]],
          prv |-> [id \in DOMAIN at |-> IF at[id] <= Len(ss1) THEN k1.prv[at[id]]
                                        ELSE k2.prv[at[id] - Len(ss1)]],
          l1 |-> IF ss1 = <<>> THEN NoStmt ELSE ss1[1].id,
          l2 |-> IF ss2 = <<>> THEN NoStmt ELSE ss2[1].id]))))

\* BasicBlock::FirstNonPhiDef, from the statement stmt on
RECURSIVE FirstNonPhiDef(_, _)
FirstNonPhiDef(s, stmt) ==
    IF stmt = NoStmt THEN NoStmt
    ELSE IF ~s.of[stmt].phi THEN stmt
    ELSE FirstNonPhiDef(s, s.nxt[stmt])

\* the statements met from stmt along the next links, n of them at most
RECURSIVE StmtWalk(_, _, _)
StmtWalk(s, stmt, n) ==
    IF stmt = NoStmt \/ n = 0 THEN <<>>
    ELSE <<s.of[stmt]>> \o StmtWalk(s, s.nxt[stmt], n - 1)

\* "block" has phis: the phis of bNext go after the last phi of block
PhisAfterPhis(ss, blkNonPhi1, bNextNonPhi1, blkFirst, bNextFirst, bNextLast) ==
    With(ss, LAMBDA s :
    With(IF blkNonPhi1 # NoStmt THEN s.prv[blkNonPhi1] ELSE s.prv[blkFirst], LAMBDA blkLastPhi :
    With([s EXCEPT !.nxt[blkLastPhi] = bNextFirst, !.prv[bNextFirst] = blkLastPhi], LAMBDA s1 :
    With(IF bNextNonPhi1 # NoStmt THEN s1.prv[bNextNonPhi1] ELSE s1.prv[bNextFirst], LAMBDA bNextLastPhi :
    With([s1 EXCEPT !.nxt[bNextLastPhi] = blkNonPhi1], LAMBDA s2 :
    With(IF blkNonPhi1 # NoStmt THEN [s2 EXCEPT !.prv[blkNonPhi1] = bNextLastPhi]
         ELSE [s2 EXCEPT !.prv[blkFirst] = bNextLastPhi], LAMBDA s3 :
    IF bNextNonPhi1 # NoStmt
    THEN [s3 EXCEPT !.l2 = bNextNonPhi1, !.prv[bNextNonPhi1] = bNextLast]
    ELSE [s3 EXCEPT !.l2 = bNextNonPhi1]))))))

\* "block" has statements and no phi: the phis of bNext go at the start of block
PhisAtStart(ss, bNextNonPhi1, blkFirst, bNextFirst, bNextLast) ==
    With(ss, LAMBDA s :
    With(s.prv[blkFirst], LAMBDA blkLast :
    With(IF bNextNonPhi1 # NoStmt THEN s.prv[bNextNonPhi1] ELSE s.prv[bNextFirst], LAMBDA bNextLastPhi :
    With([s EXCEPT !.l1 = bNextFirst, !.prv[bNextFirst] = blkLast], LAMBDA s1 :
    With([s1 EXCEPT !.nxt[bNextLastPhi] = blkFirst], LAMBDA s2 :
    With([s2 EXCEPT !.prv[blkFirst] = bNextLastPhi], LAMBDA s3 :
    IF bNextNonPhi1 # NoStmt
    THEN [s3 EXCEPT !.l2 = bNextNonPhi1, !.prv[bNextNonPhi1] = bNextLast]
    ELSE [s3 EXCEPT !.l2 = bNextNonPhi1]))))))

\* fgCompactBlocks: "First move any phi definitions of the second block after the
\* phi defs of the first"
MovePhis(ss) ==
    With(ss, LAMBDA s :
    With(FirstNonPhiDef(s, s.l1), LAMBDA blkNonPhi1 :
    With(FirstNonPhiDef(s, s.l2), LAMBDA bNextNonPhi1 :
    IF s.l2 = NoStmt \/ s.l2 = bNextNonPhi1 THEN s
    ELSE IF blkNonPhi1 # s.l1
         THEN PhisAfterPhis(s, blkNonPhi1, bNextNonPhi1, s.l1, s.l2, s.prv[s.l2])
         ELSE IF s.l1 # NoStmt
              THEN PhisAtStart(s, bNextNonPhi1, s.l1, s.l2, s.prv[s.l2])
              ELSE s)))

\* fgCompactBlocks: "Now proceed with the updated bbTreeLists": the list of bNext
\* is appended to the list of block
AppendLists(ss) ==
    With(ss, LAMBDA s :
    IF s.l1 # NoStmt
    THEN IF s.l2 # NoStmt
         THEN With(s.prv[s.l1], LAMBDA stmtLast1 : With(s.prv[s.l2], LAMBDA stmtLast2 :
                   With([s EXCEPT !.nxt[stmtLast1] = s.l2, !.prv[s.l2] = stmtLast1], LAMBDA s1 :
                        [s1 EXCEPT !.prv[s.l1] = stmtLast2])))
         ELSE s
    ELSE [s EXCEPT !.l1 = s.l2])

\* the statement list of block after fgCompactBlocks has moved the code of bNext
\* to it, as a walk from its bbStmtList reads it
CompactStmts(ss1, ss2, lir) ==
    IF lir THEN ss1 \o ss2
    ELSE With(AppendLists(MovePhis(StmtLists(ss1, ss2))), LAMBDA s :
              StmtWalk(s, s.l1, Len(ss1) + Len(ss2) + 1))

-----------------------------------------------------------------------------
(* Compaction *)

\* the flags of bNext that fgCompactBlocks hands on to block
BBF_COMPACT_UPD ==
    {"BBF_GC_SAFE_POINT", "BBF_NEEDS_GCPOLL", "BBF_HAS_JMP", "BBF_BACKWARD_JUMP", "BBF_LOOP_PREHEADER"}

\* BasicBlock::sameEHRegion
sameEHRegion(g, a, b) == g.try[a] = g.try[b] /\ g.hnd[a] = g.hnd[b]

\* Compiler::fgCanCompactBlocks
fgCanCompactBlocks(g, block, bNext) ==
    /\ block # NoBlock /\ bNext # NoBlock
    /\ g.kind[block] = "BBJ_ALWAYS" /\ g.dest[block] = bNext
    /\ "BBF_KEEP_BBJ_ALWAYS" \notin g.flags[block]
    /\ ~(/\ g.refs[bNext] # 1
         /\ (~isEmpty(g, block) \/ "BBF_FUNCLET_BEG" \in g.flags[block] \/ block \in EHRoots(g)))
    /\ "BBF_DONT_REMOVE" \notin g.flags[bNext]
    /\ g.fgCanRelocateEHRegions => sameEHRegion(g, block, bNext)
    /\ \A predBlock \in PredSet(g, bNext) : g.kind[predBlock] # "BBJ_SWITCH"

\* the noway_asserts at the head of fgCompactBlocks
CompactAsserts(g, block, bNext) ==
    /\ block # NoBlock /\ bNext # NoBlock
    /\ "BBF_REMOVED" \notin g.flags[block] /\ "BBF_REMOVED" \notin g.flags[bNext]
    /\ Next(g, block) = bNext
    /\ (g.refs[bNext] = 1 \/ isEmpty(g, block))
    /\ PredSet(g, bNext) # {}
    /\ ~bbIsTryBeg(g, bNext) /\ bNext \notin EHRoots(g)
    /\ "BBF_DONT_REMOVE" \notin g.flags[bNext]
    /\ (g.try[block] # 0) = (g.try[bNext] # 0)

\* fgCompactBlocks: block stops being a predecessor of bNext, and every edge
\* still incident on bNext is retargeted to block
CompactRetarget(gg, block, bNext) ==
    With(fgRemoveRefPred(gg, bNext, block), LAMBDA g :
    IF g.refs[bNext] > 0
    THEN ReplaceJumpTargets([g EXCEPT !.flags[block] = @ \ {"BBF_LOOP_PREHEADER"}],
                            PredBlocks(g, bNext), block, bNext)
    ELSE g)

\* fgCompactBlocks leaving the statements of bNext behind
CompactCode_Dropped(gg, block, bNext) == gg

\* fgCompactBlocks: the statements of bNext move to block
CompactCode(gg, block, bNext) ==
    With(gg, LAMBDA g :
    [g EXCEPT !.stmts[block] = CompactStmts(g.stmts[block], g.stmts[bNext], g.lir),
              !.stmts[bNext] = IF g.lir THEN <<>> ELSE @])

\* fgCompactBlocks: the weight of block after the compaction
CompactWeight(gg, block, bNext) ==
    With(gg, LAMBDA g :
    IF g.kind[bNext] = "BBJ_THROW" THEN bbSetRunRarely(g, block)
    ELSE With("BBF_PROF_WEIGHT" \in g.flags[block] \cup g.flags[bNext], LAMBDA hasProfileWeight :
         With(IF g.weight[block] > g.weight[bNext] THEN g.weight[block] ELSE g.weight[bNext],
              LAMBDA newWeight :
         IF hasProfileWeight
         THEN [g EXCEPT !.weight[block] = newWeight,
                        !.flags[block] = IF newWeight = 0
                                         THEN @ \cup {"BBF_PROF_WEIGHT", "BBF_RUN_RARELY"}
                                         ELSE (@ \cup {"BBF_PROF_WEIGHT"}) \ {"BBF_RUN_RARELY"}]
         ELSE IF newWeight > 0
         THEN [g EXCEPT !.weight[block] = newWeight, !.flags[block] = @ \ {"BBF_RUN_RARELY"}]
         ELSE bbSetRunRarely(g, block))))

\* fgCompactBlocks: the flags of the two blocks, and bNext out of the block list
CompactFlags(gg, block, bNext) ==
    With(gg, LAMBDA g :
    With(IF "BBF_INTERNAL" \in g.flags[block] /\ "BBF_INTERNAL" \notin g.flags[bNext]
         THEN (g.flags[block] \ {"BBF_INTERNAL"}) \cup {"BBF_IMPORTED"} ELSE g.flags[block],
         LAMBDA f :
         fgUnlinkBlock([g EXCEPT !.flags[block] = f \cup (g.flags[bNext] \cap BBF_COMPACT_UPD),
                                 !.flags[bNext] = @ \cup {"BBF_REMOVED"}], bNext)))

\* fgCompactBlocks: "Set the jump targets"; bNextNext is what Next() of the
\* unlinked bNext still answers
CompactJumps(gg, block, bNext, bNextNext) ==
    With(gg, LAMBDA g :
    With(g.kind[bNext], LAMBDA kind :
    CASE kind \in {"BBJ_CALLFINALLY", "BBJ_ALWAYS", "BBJ_COND", "BBJ_EHCATCHRET", "BBJ_EHFILTERRET"} ->
             With([g EXCEPT !.flags[block] =
                                @ \cup (g.flags[bNext]
                                        \cap (CASE kind = "BBJ_CALLFINALLY" -> {"BBF_RETLESS_CALL", "BBF_NONE_QUIRK"}
                                                [] kind = "BBJ_ALWAYS" -> {"BBF_NONE_QUIRK"}
                                                [] OTHER -> {})),
                            !.kind[block] = kind,
                            !.dest[block] = g.dest[bNext]], LAMBDA g1 :
             With(fgReplacePred(g1, g.dest[bNext], bNext, block), LAMBDA g2 :
                  IF kind = "BBJ_COND" /\ g.dest[bNext] # bNextNext /\ bNextNext # NoBlock
                  THEN fgReplacePred(g2, bNextNext, bNext, block)
                  ELSE g2))
      [] kind = "BBJ_EHFINALLYRET" ->
             fgChangeEhfBlock([g EXCEPT !.kind[block] = kind, !.ehf[block] = g.ehf[bNext]], bNext, block)
      [] kind \in {"BBJ_EHFAULTRET", "BBJ_THROW", "BBJ_RETURN"} ->
             [g EXCEPT !.kind[block] = kind]
      [] kind = "BBJ_SWITCH" ->
             fgChangeSwitchBlock([g EXCEPT !.kind[block] = kind, !.swt[block] = g.swt[bNext]], bNext, block)
      [] OTHER -> [g EXCEPT !.fatal = TRUE]))

\* fgCompactBlocks: block takes the number and the dominator information of bNext
\* when it was created after the dominators were computed
CompactDoms(gg, block, bNext) ==
    With(gg, LAMBDA g :
    IF g.domsComputed /\ g.num[block] > g.domBBcount
    THEN [g EXCEPT !.reach[block] = g.reach[bNext], !.reach[bNext] = {},
                   !.idom[block] = g.idom[bNext], !.idom[bNext] = NoBlock,
                   !.num[block] = g.num[bNext]]
    ELSE g)

\* Compiler::fgCompactBlocks
fgCompactBlocks(gg, block, bNext) ==
    With(gg, LAMBDA g :
    IF ~CompactAsserts(g, block, bNext) THEN [g EXCEPT !.fatal = TRUE]
    ELSE With(Next(g, bNext), LAMBDA bNextNext :
         CompactDoms(
           CompactJumps(
             CompactFlags(
               CompactWeight(
                 CompactCode(
                   CompactRetarget(g, block, bNext), block, bNext), block, bNext), block, bNext),
             block, bNext, bNextNext), block, bNext)))

-----------------------------------------------------------------------------
(* Block insertion, empty blocks, conditional reversal *)

\* a function with one more point in its domain
Ext(f, b, v) == [x \in DOMAIN f \cup {b} |-> IF x = b THEN v ELSE f[x]]

\* Compiler::fgInsertBBafter
fgInsertBBafter(gg, insertAfterBlk, newBlk) ==
    With(gg, LAMBDA g :
    With(IndexOf(g, insertAfterBlk), LAMBDA i :
    [g EXCEPT !.list = SubSeq(@, 1, i) \o <<newBlk>> \o SubSeq(@, i + 1, Len(@))]))

\* Compiler::fgNewBBafter(jumpKind, block, /* extendRegion */ true, jumpDest): the
\* new block is the one after block in the list that comes back
fgNewBBafter(gg, jumpKind, block, jumpDest) ==
    With(gg, LAMBDA g :
    With(1 + Cardinality(Ids(g)), LAMBDA newBlk :
    fgInsertBBafter(
      [g EXCEPT !.kind = Ext(@, newBlk, jumpKind), !.dest = Ext(@, newBlk, jumpDest),
                !.swt = Ext(@, newBlk, <<>>), !.ehf = Ext(@, newBlk, <<>>),
                !.stmts = Ext(@, newBlk, <<>>),
                !.flags = Ext(@, newBlk, {"BBF_INTERNAL"} \cup (g.flags[block] \cap {"BBF_RUN_RARELY"})),
                !.preds = [t \in Ids(g) \cup {newBlk} |->
                             IF t = newBlk THEN [s \in Ids(g) \cup {newBlk} |-> 0]
                             ELSE Ext(g.preds[t], newBlk, 0)],
                !.refs = Ext(@, newBlk, 0), !.num = Ext(@, newBlk, g.numMax + 1),
                !.numMax = @ + 1, !.weight = Ext(@, newBlk, g.weight[block]),
                !.try = Ext(@, newBlk, g.try[block]), !.hnd = Ext(@, newBlk, g.hnd[block]),
                !.pre = Ext(@, newBlk, 0), !.post = Ext(@, newBlk, 0),
                !.reach = Ext(@, newBlk, {}), !.idom = Ext(@, newBlk, NoBlock),
                !.swtDom = Ext(@, newBlk, NoDominantCase)],
      block, newBlk)))

\* BasicBlock::bbFallsThrough
bbFallsThrough(g, b) ==
    \/ g.kind[b] = "BBJ_COND"
    \/ g.kind[b] = "BBJ_CALLFINALLY" /\ "BBF_RETLESS_CALL" \notin g.flags[b]

\* fgRemoveBlock(block, /* unreachable */ false): the jumps of one predecessor of
\* the removed block go to succBlock; dup is the duplicate count of its edge
RetargetPred(gg, predBlock, dup, block, succBlock) ==
    With(gg, LAMBDA g :
    CASE g.kind[predBlock] = "BBJ_SWITCH" -> fgReplaceJumpTarget(g, predBlock, succBlock, block)
      [] g.kind[predBlock] = "BBJ_EHFINALLYRET" ->
             With(AddRefPreds(g, succBlock, predBlock, dup), LAMBDA g1 :
                  [g1 EXCEPT !.ehf[predBlock] = ReplaceIn(@, block, succBlock)])
      [] g.kind[predBlock] = "BBJ_COND" ->
             With(AddRefPreds(g, succBlock, predBlock, dup), LAMBDA g1 :
                  IF g1.dest[predBlock] # block THEN g1
                  ELSE IF Next(g1, predBlock) = succBlock
                       THEN fgRemoveConditionalJump([g1 EXCEPT !.dest[predBlock] = succBlock], predBlock)
                       ELSE [g1 EXCEPT !.dest[predBlock] = succBlock])
      [] g.kind[predBlock] \in {"BBJ_CALLFINALLY", "BBJ_ALWAYS", "BBJ_EHCATCHRET"} ->
             With(AddRefPreds(g, succBlock, predBlock, dup), LAMBDA g1 :
                  IF g1.dest[predBlock] # block THEN [g1 EXCEPT !.fatal = TRUE]
                  ELSE [g1 EXCEPT !.dest[predBlock] = succBlock])
      [] OTHER -> [g EXCEPT !.fatal = TRUE])

\* RetargetPred for every predecessor of a sequence; edges is the predecessor list
\* of the removed block as it was when the removal began
RECURSIVE RetargetPreds(_, _, _, _, _)
RetargetPreds(gg, pp, edges, block, succBlock) ==
    With(gg, LAMBDA g : With(pp, LAMBDA ps :
    IF ps = <<>> \/ g.fatal THEN g
    ELSE RetargetPreds(RetargetPred(g, Head(ps), edges[Head(ps)], block, succBlock),
                       Tail(ps), edges, block, succBlock)))

\* Compiler::fgRemoveBlock(block, /* unreachable */ false), of an empty BBJ_ALWAYS block
fgRemoveEmptyBlock(gg, block) ==
    With(gg, LAMBDA g :
    IF \/ "BBF_DONT_REMOVE" \in g.flags[block] \/ block = g.genReturnBB \/ ~isEmpty(g, block)
       \/ (Prev(g, block) # NoBlock /\ isBBCallAlwaysPair(g, Prev(g, block)))
       \/ (Prev(g, block) = NoBlock /\ g.dest[block] # Next(g, block))
    THEN [g EXCEPT !.fatal = TRUE]
    ELSE With(g.dest[block], LAMBDA succBlock :
         With(IF Prev(g, block) = NoBlock
              THEN [g EXCEPT !.refs[block] = @ - 1, !.refs[succBlock] = @ + 1] ELSE g, LAMBDA g0 :
         With(fgUnlinkBlock([g0 EXCEPT !.flags[block] = @ \cup {"BBF_REMOVED"}], block), LAMBDA g1 :
              RetargetPreds(fgRemoveRefPred(g1, succBlock, block),
                            PredBlocks(g, block), g.preds[block], block, succBlock)))))

\* Compiler::ehCanDeleteEmptyBlock
ehCanDeleteEmptyBlock(g, block) == ~bbIsTryBeg(g, block) /\ block \notin EHRoots(g)

\* the statement fgOptimizeEmptyBlock puts in an empty block it has to keep
NopStmt(block) ==
    [id |-> 100 + block, phi |-> FALSE, test |-> FALSE, se |-> FALSE, rev |-> FALSE, tree |-> "GT_NOP"]

\* Compiler::fgOptimizeEmptyBlock: the graph and the value returned
fgOptimizeEmptyBlock(gg, block) ==
    With(gg, LAMBDA g :
    With(Prev(g, block), LAMBDA bPrev :
    CASE g.kind[block] \in {"BBJ_COND", "BBJ_SWITCH"} ->
             [g |-> [g EXCEPT !.fatal = TRUE], madeChanges |-> FALSE]
      [] g.kind[block] = "BBJ_ALWAYS" ->
             IF \/ bPrev = NoBlock /\ g.dest[block] # Next(g, block)
                \/ bPrev # NoBlock /\ g.kind[bPrev] = "BBJ_CALLFINALLY"
                \/ bPrev # NoBlock /\ bbFallsThrough(g, bPrev) /\ g.dest[block] # Next(g, block)
                \/ g.dest[block] = block
                \/ block = g.fgEntryBB
             THEN [g |-> g, madeChanges |-> FALSE]
             ELSE IF /\ ~sameEHRegion(g, block, g.dest[block])
                     /\ \E predBlock \in PredSet(g, block) : g.kind[predBlock] = "BBJ_EHCATCHRET"
             THEN [g |-> [g EXCEPT !.stmts[block] = Append(@, NopStmt(block))], madeChanges |-> TRUE]
             ELSE IF \/ ~ehCanDeleteEmptyBlock(g, block)
                     \/ Next(g, block) = NoBlock /\ bPrev = NoBlock
             THEN [g |-> g, madeChanges |-> FALSE]
             ELSE [g |-> fgRemoveEmptyBlock(g, block), madeChanges |-> TRUE]
      [] OTHER -> [g |-> g, madeChanges |-> FALSE]))

-----------------------------------------------------------------------------
(* fgUpdateFlowGraph *)

\* the rewrites fgUpdateFlowGraph may make before it is taken not to return
MaxRewrites == 12

\* for every pair of blocks, the duplicate count of the predecessor edge is the
\* number of successor slots that designate the target, and the reference count
\* of a block is the sum of the duplicate counts plus its fixed references
PredsConsistent(g) ==
    \A t \in Blocks(g) :
        /\ \A s \in Ids(g) : g.preds[t][s] = IF s \in Blocks(g) THEN SlotCount(g, s, t) ELSE 0
        /\ g.refs[t] = SumOver(g.preds[t], Ids(g)) + FixedRefs(g, t)

\* the rewrites of the simplifier, as against its removals of blocks
Rewrites == {"branchToNext", "threading", "reversal", "switch", "compaction"}

\* the progress of fgUpdateFlowGraph after the change named what has made g2 of
\* the graph: the local variables change and modified, and, for the checks, the
\* changes made so far and whether each rewrite has kept the graph consistent
Changed(rr, g2, what) ==
    With(rr, LAMBDA r :
    [r EXCEPT !.g = g2, !.change = TRUE, !.modified = TRUE,
              !.fuel = IF @ > 0 THEN @ - 1 ELSE 0,
              !.diverged = @ \/ r.fuel = 0,
              !.did = @ \cup {what},
              !.ok = @ /\ (what \notin Rewrites \/ g2.fatal
                           \/ ~PredsConsistent(r.g) \/ PredsConsistent(g2))])

\* Compiler::fgEhAllowsMoveBlock
fgEhAllowsMoveBlock(g, bBefore, bAfter) == sameEHRegion(g, bBefore, bAfter)

\* fgUpdateFlowGraph: "Do we have a COND jump around an empty always jump, or to
\* a join-free block?"
CanReverse(g, block, bNext, bDest) ==
    /\ g.kind[block] = "BBJ_COND" /\ bNext # NoBlock
    /\ g.refs[bNext] = 1 /\ g.kind[bNext] = "BBJ_ALWAYS"
    /\ g.dest[bNext] # Next(g, bNext)
    /\ isEmpty(g, bNext) /\ g.dest[bNext] # bNext

isJumpAroundEmpty(g, bNext, bDest) == Next(g, bNext) = bDest

isJumpToJoinFree(g, block, bNext, bDest) ==
    /\ ~isJumpAroundEmpty(g, bNext, bDest)
    /\ g.refs[bDest] = 1 /\ g.refs[g.dest[bNext]] > 1 /\ g.num[bDest] > g.num[block]
    /\ ("BBF_RUN_RARELY" \in g.flags[block]) = ("BBF_RUN_RARELY" \in g.flags[bDest])

\* the optimizeJump of the reversal when it is time to act on it
optimizeJump(g, block, bNext, bDest) ==
    /\ isJumpAroundEmpty(g, bNext, bDest) \/ isJumpToJoinFree(g, block, bNext, bDest)
    /\ TryRegionAllows(g, block, bDest) /\ TryRegionAllows(g, block, bNext)
    /\ isJumpToJoinFree(g, block, bNext, bDest)
          => fgEhAllowsMoveBlock(g, bNext, bDest) /\ ~isBBCallAlwaysPair(g, bDest)

\* fgUpdateFlowGraph: the join-free bDest moves to after bNext, and a block is
\* added after it to jump where it used to fall
MoveJoinFree(gg, bNext, bDest) ==
    With(gg, LAMBDA g :
    With(Next(g, bDest), LAMBDA bDestNext :
    With(fgInsertBBafter(fgUnlinkBlock(g, bDest), bNext, bDest), LAMBDA g1 :
    IF g1.kind[bDest] # "BBJ_COND" THEN g1
    ELSE IF bDestNext = NoBlock THEN [g1 EXCEPT !.fatal = TRUE]
    ELSE With(fgNewBBafter(g1, "BBJ_ALWAYS", bDest, bDestNext), LAMBDA g2 :
         With(Next(g2, bDest), LAMBDA bFixup :
         With([g2 EXCEPT !.weight[bFixup] = g2.weight[bDestNext],
                         !.flags[bFixup] = (@ \ {"BBF_RUN_RARELY", "BBF_PROF_WEIGHT"})
                                           \cup (g2.flags[bDestNext] \cap {"BBF_RUN_RARELY", "BBF_PROF_WEIGHT"})],
              LAMBDA g3 :
              fgAddRefPred(fgAddRefPred(fgRemoveRefPred(g3, bDestNext, bDest), bFixup, bDest),
                           bDestNext, bFixup)))))))

\* gtReverseCond on the jump that ends block
ReverseJumpStmt(gg, block) ==
    With(gg, LAMBDA g :
    With(g.stmts[block], LAMBDA ss :
    IF ss = <<>> THEN [g EXCEPT !.fatal = TRUE]
    ELSE IF ~ss[Len(ss)].test THEN [g EXCEPT !.fatal = TRUE]
    ELSE [g EXCEPT !.stmts[block] = [ss EXCEPT ![Len(ss)].rev = ~@]]))

\* fgUpdateFlowGraph: "Reversing a conditional jump around an unconditional jump"
ReverseCond(gg, block, bNext, bDest) ==
    With(IF isJumpToJoinFree(gg, block, bNext, bDest) THEN MoveJoinFree(gg, bNext, bDest) ELSE gg, LAMBDA g0 :
    With(ReverseJumpStmt(g0, block), LAMBDA g :
    IF g.fatal THEN g
    ELSE With(g.dest[bNext], LAMBDA bNextJumpDest :
         With(fgAddRefPred(fgRemoveRefPred([g EXCEPT !.dest[block] = bNextJumpDest],
                                           bNextJumpDest, bNext),
                           bNextJumpDest, block), LAMBDA g1 :
         With(fgUnlinkBlock(fgRemoveRefPred(g1, bNext, block), bNext), LAMBDA g2 :
              [g2 EXCEPT !.flags[bNext] = @ \cup {"BBF_REMOVED"}])))))

\* what the body of the for loop of fgUpdateFlowGraph hands to its next
\* iteration: the progress, the block the iteration goes on with, and bPrev
Iter(r, next, bPrev) == [r |-> r, next |-> next, bPrev |-> bPrev]

\* fgUpdateFlowGraph going on to the next block without removing anything
RemoveOrKeep_KeepsAll(rr, block, bPrev) == Iter(rr, Next(rr.g, block), block)

\* fgUpdateFlowGraph from "Remove unreachable blocks" to the end of the body of
\* the for loop
RemoveOrKeep(rr, block, bPrev) ==
    With(rr, LAMBDA r : With(r.g, LAMBDA g : With(Next(r.g, block), LAMBDA bNext :
    IF "BBF_DONT_REMOVE" \in g.flags[block] THEN Iter(r, bNext, block)
    ELSE IF block \in EHRoots(g) THEN Iter([r EXCEPT !.g.fatal = TRUE], NoBlock, bPrev)
    ELSE IF g.refs[block] = 0
    THEN Iter(Changed(r, fgRemoveBlock(g, block), "unreachable"), bNext, bPrev)
    ELSE IF g.refs[block] = 1 /\ g.kind[block] \in {"BBJ_COND", "BBJ_ALWAYS"} /\ g.dest[block] = block
    THEN Iter(Changed(r, fgRemoveBlock(g, block), "unreachable"), bNext, bPrev)
    ELSE IF isEmpty(g, block)
    THEN With(fgOptimizeEmptyBlock(g, block), LAMBDA e :
              With(IF e.madeChanges THEN Changed(r, e.g, "empty") ELSE [r EXCEPT !.g = e.g], LAMBDA r1 :
                   IF "BBF_REMOVED" \in e.g.flags[block] THEN Iter(r1, bNext, bPrev)
                   ELSE Iter(r1, Next(e.g, block), block)))
    ELSE Iter(r, bNext, block))))


\* fgUpdateFlowGraph at REPEAT, for a BBJ_ALWAYS or BBJ_COND block: the progress,
\* and the bDest the rest of the body works with
JumpHead(rr, block, bNext) ==
    With(rr, LAMBDA r : With(r.g, LAMBDA g :
    CASE g.kind[block] = "BBJ_ALWAYS" ->
             IF g.dest[block] = bNext
             THEN [r |-> [r EXCEPT !.g.flags[block] = @ \cup {"BBF_NONE_QUIRK"}], bDest |-> NoBlock]
             ELSE [r |-> r, bDest |-> g.dest[block]]
      [] g.kind[block] = "BBJ_COND" ->
             IF g.dest[block] = bNext
             THEN [r |-> Changed(r, fgOptimizeBranchToNext(g, block, bNext), "branchToNext"),
                   bDest |-> NoBlock]
             ELSE [r |-> r, bDest |-> g.dest[block]]
      [] OTHER -> [r |-> r, bDest |-> NoBlock]))

\* fgUpdateFlowGraph: the jump of block goes to an empty unconditional jump that
\* fgOptimizeBranchToEmptyUnconditional agrees to skip
CanThread(g, block, bDest) ==
    /\ bDest # NoBlock
    /\ isEmpty(g, bDest) /\ g.kind[bDest] = "BBJ_ALWAYS" /\ g.dest[bDest] # bDest
    /\ g.dest[bDest] # Next(g, bDest) \/ "BBF_NONE_QUIRK" \notin g.flags[bDest]
    /\ fgOptimizeBranchToEmptyUnconditional(g, block, bDest).result

RECURSIVE Repeat(_, _, _)
RECURSIVE CompactOrGo(_, _, _, _)

\* fgUpdateFlowGraph from "COMPACT blocks if possible" on
CompactOrGo(rr, block, bNext, bPrev) ==
    With(rr, LAMBDA r :
    IF "BBF_REMOVED" \in r.g.flags[block] THEN Iter([r EXCEPT !.g.fatal = TRUE], NoBlock, bPrev)
    ELSE IF fgCanCompactBlocks(r.g, block, bNext)
    THEN Repeat(Changed(r, fgCompactBlocks(r.g, block, bNext), "compaction"), block, bPrev)
    ELSE RemoveOrKeep(r, block, bPrev))

\* the body of the for loop of fgUpdateFlowGraph from the label REPEAT on
Repeat(rr, block, bPrev) ==
    With(rr, LAMBDA r0 :
    IF r0.g.fatal \/ r0.diverged THEN Iter(r0, NoBlock, bPrev)
    ELSE With(Next(r0.g, block), LAMBDA bNext :
         With(JumpHead(r0, block, bNext), LAMBDA h :
         With(h.r, LAMBDA r : With(h.r.g, LAMBDA g : With(h.bDest, LAMBDA bDest :
         IF g.fatal \/ r.diverged THEN Iter(r, NoBlock, bPrev)
         ELSE IF CanThread(g, block, bDest)
         THEN Repeat(Changed(r, fgOptimizeBranchToEmptyUnconditional(g, block, bDest).g, "threading"),
                     block, bPrev)
         ELSE IF bDest # NoBlock /\ CanReverse(g, block, bNext, bDest)
                 /\ optimizeJump(g, block, bNext, bDest)
         THEN With(Changed(r, ReverseCond(g, block, bNext, bDest), "reversal"), LAMBDA r1 :
                   IF r1.g.refs[bNext] > 0 /\ r1.g.dest[bNext] = block /\ r1.g.refs[block] = 1
                   THEN Iter(r1, Next(r1.g, block), bPrev)
                   ELSE Repeat(r1, block, bPrev))
         ELSE IF g.kind[block] = "BBJ_SWITCH"
         THEN With(fgOptimizeSwitchBranches(g, block, r.fuel), LAMBDA s :
                   IF s.diverged THEN Iter([r EXCEPT !.g = s.g, !.diverged = TRUE], NoBlock, bPrev)
                   ELSE IF s.result THEN Repeat(Changed(r, s.g, "switch"), block, bPrev)
                   ELSE CompactOrGo(r, block, bNext, bPrev))
         ELSE CompactOrGo(r, block, bNext, bPrev)))))))

\* fgUpdateFlowGraph: a block flagged removed and still in the list leaves it
SkipRemoved(g, bPrev, block) ==
    [g EXCEPT !.list = SubSeq(@, 1, IndexOf(g, bPrev)) \o SubSeq(@, IndexOf(g, block) + 1, Len(@))]

\* the for loop of fgUpdateFlowGraph, from block on
RECURSIVE Pass(_, _, _)
Pass(rr, block, bPrev) ==
    With(rr, LAMBDA r :
    IF block = NoBlock \/ r.g.fatal \/ r.diverged THEN r
    ELSE IF "BBF_REMOVED" \in r.g.flags[block]
         THEN IF bPrev = NoBlock THEN [r EXCEPT !.g.fatal = TRUE]
              ELSE Pass([r EXCEPT !.g = SkipRemoved(r.g, bPrev, block)], Next(r.g, block), bPrev)
         ELSE With(Repeat(r, block, bPrev), LAMBDA i : Pass(i.r, i.next, i.bPrev)))

\* fgUpdateFlowGraph making one pass over the blocks, whatever the pass changes
UpdLoop_OnePass(rr) ==
    With(rr, LAMBDA r0 : Pass([r0 EXCEPT !.change = FALSE], fgFirstBB(r0.g), NoBlock))

\* the do-while loop of fgUpdateFlowGraph
RECURSIVE UpdLoop(_)
UpdLoop(rr) ==
    With(rr, LAMBDA r0 :
    With(Pass([r0 EXCEPT !.change = FALSE], fgFirstBB(r0.g), NoBlock), LAMBDA r :
    IF r.change /\ ~r.g.fatal /\ ~r.diverged THEN UpdLoop(r) ELSE r))

\* Compiler::fgUpdateFlowGraph(/* doTailDuplication */ false): the graph it
\* leaves, the value it returns (modified), and whether it was still rewriting
\* after MaxRewrites changes (diverged)
fgUpdateFlowGraph(gg) ==
    UpdLoop([g |-> gg, change |-> FALSE, modified |-> FALSE, ok |-> TRUE, did |-> {},
             fuel |-> MaxRewrites, diverged |-> FALSE])

-----------------------------------------------------------------------------
(* The simplifier at work *)

\* a statement of the graphs of the simplifier: a phi definition, the conditional
\* or switch jump that ends its block (test) with or without side effects (se),
\* or another statement; rev tells a jump whose condition has been reversed, tree
\* is the root node with its operands
SStmt(id, phi, test, se) ==
    [id |-> id, phi |-> phi, test |-> test, se |-> se, rev |-> FALSE,
     tree |-> IF test THEN "GT_JTRUE(relop)" ELSE IF phi THEN "GT_PHI" ELSE "GT_STORE_LCL_VAR"]

\* the jumps of block b of a graph of n blocks; a BBJ_COND block has a next block
SimpJumps(n, b) ==
    [kind : {"BBJ_ALWAYS"}, dest : 1..n]
    \cup (IF b < n THEN [kind : {"BBJ_COND"}, dest : 1..n] ELSE {})
    \cup [kind : {"BBJ_RETURN"}, dest : {NoBlock}]
    \cup (IF b = 1 THEN [kind : {"BBJ_SWITCH"}, dest : {NoBlock}] ELSE {})

\* the statements of a block: one plain statement if it has code, and the jump
\* that ends a BBJ_COND or BBJ_SWITCH block
SimpStmts(b, kind, code, se) ==
    (IF code THEN <<SStmt(10 * b + 1, FALSE, FALSE, FALSE)>> ELSE <<>>)
    \o (IF kind = "BBJ_COND" THEN <<SStmt(10 * b + 2, FALSE, TRUE, se)>>
        ELSE IF kind = "BBJ_SWITCH"
        THEN <<[SStmt(10 * b + 2, FALSE, TRUE, se) EXCEPT !.tree = "GT_SWITCH(switchVal)"]>>
        ELSE <<>>)

\* a graph without EH regions, profile data or special blocks
SimpGraph(n, jmp, swt, stmts, flags, weight, lir) ==
    MkGraph(n, jmp, swt, [b \in 1..n |-> <<>>], stmts,
            [b \in 1..n |-> flags[b] \cup (IF weight[b] = 0 THEN {"BBF_RUN_RARELY"} ELSE {})],
            weight, [b \in 1..n |-> 0], [b \in 1..n |-> 0], <<>>, NoBlock, NoBlock, {}, lir)

\* flow graphs of jumps, conditional jumps, returns and one switch; blocks with
\* and without code; the second block may have to stay; the unconditional jumps
\* to the next block may carry BBF_NONE_QUIRK already; with doms the graph has been
\* through fgComputeReachability, which has removed its unreachable blocks and
\* computed its reachability sets and dominators
SimpFlowInit(doms) ==
    \E n \in 2..MaxBlocks :
      \E jmp \in [1..n -> SimpJumps(n, 1)], tab \in [1..2 -> 1..n] :
        \E code \in SUBSET (1..n), keep \in BOOLEAN, se \in BOOLEAN, quirk \in BOOLEAN :
          /\ \A b \in 1..n : jmp[b] \in SimpJumps(n, b)
          /\ jmp[1].kind # "BBJ_SWITCH" => tab = [i \in 1..2 |-> 1]
          /\ \A b \in code : jmp[b].kind \in {"BBJ_ALWAYS", "BBJ_RETURN"}
          /\ (\A b \in 1..n : jmp[b].kind \in {"BBJ_ALWAYS", "BBJ_RETURN"}) => ~se
          /\ (\A b \in 1..n : ~(jmp[b].kind = "BBJ_ALWAYS" /\ jmp[b].dest = b + 1)) => ~quirk
          /\ \E g \in {SimpGraph(n, jmp,
                                 [b \in 1..n |-> IF jmp[b].kind = "BBJ_SWITCH" THEN tab ELSE <<>>],
                                 [b \in 1..n |-> SimpStmts(b, jmp[b].kind, b \in code, se)],
                                 [b \in 1..n |->
                                    (IF keep /\ b = 2 THEN {"BBF_DONT_REMOVE"} ELSE {})
                                    \cup (IF quirk /\ jmp[b].kind = "BBJ_ALWAYS" /\ jmp[b].dest = b + 1
                                          THEN {"BBF_NONE_QUIRK"} ELSE {})],
                                 [b \in 1..n |-> 1], FALSE)} :
                \E g1 \in {IF doms THEN fgComputeReachability(g).g ELSE g} : InitFrom(g1)

InitSimpFlow == SimpFlowInit(FALSE)

\* BB01 jumps conditionally to BB04 around the empty jump BB02, which goes to a
\* block with other predecessors; nothing but BB01 leads to BB04
InitSimpJoinFree ==
    \E x \in {1, 5}, se \in BOOLEAN :
      \E j3 \in {[kind |-> "BBJ_RETURN", dest |-> NoBlock], [kind |-> "BBJ_ALWAYS", dest |-> 5]},
         j4 \in {[kind |-> "BBJ_RETURN", dest |-> NoBlock], [kind |-> "BBJ_ALWAYS", dest |-> 5],
                 [kind |-> "BBJ_COND", dest |-> 1], [kind |-> "BBJ_COND", dest |-> 5]} :
        \E jmp \in {<<[kind |-> "BBJ_COND", dest |-> 4], [kind |-> "BBJ_ALWAYS", dest |-> x], j3, j4,
                      [kind |-> "BBJ_RETURN", dest |-> NoBlock]>>} :
          \E g \in {SimpGraph(5, jmp, [b \in 1..5 |-> <<>>],
                              [b \in 1..5 |-> SimpStmts(b, jmp[b].kind, b > 2, se)],
                              [b \in 1..5 |-> {}], [b \in 1..5 |-> 1], FALSE)} :
            InitFrom(g)

\* the statements of a block with phis phi definitions and code other statements
PhiStmts(b, phis, code) ==
    [i \in 1..(phis + code) |-> SStmt(10 * b + 2 + i, i <= phis, FALSE, FALSE)]

\* BB01 jumps to BB02, its next block; the two blocks have phi definitions and
\* other statements, weights and flags of their own; BB03 may jump to BB02
InitSimpStmts ==
    \E j2 \in SimpJumps(3, 2) \cup {[kind |-> "BBJ_SWITCH", dest |-> NoBlock],
                                    [kind |-> "BBJ_THROW", dest |-> NoBlock]},
       j3 \in {[kind |-> "BBJ_RETURN", dest |-> NoBlock], [kind |-> "BBJ_ALWAYS", dest |-> 2]} :
      \E p1 \in 0..2, c1 \in 0..1, p2 \in 0..2, c2 \in 0..1, lir \in BOOLEAN :
        \E w \in [1..2 -> 0..1], internal \in SUBSET {1, 2} :
          /\ lir => p1 = 0 /\ p2 = 0
          /\ \E jmp \in {<<[kind |-> "BBJ_ALWAYS", dest |-> 2], j2, j3>>} :
               \E g \in {SimpGraph(3, jmp,
                                   [b \in 1..3 |-> IF jmp[b].kind = "BBJ_SWITCH" THEN <<3, 1>> ELSE <<>>],
                                   [b \in 1..3 |->
                                      (IF b = 1 THEN PhiStmts(1, p1, c1)
                                       ELSE IF b = 2 THEN PhiStmts(2, p2, c2) ELSE <<>>)
                                      \o SimpStmts(b, jmp[b].kind, b = 3, FALSE)],
                                   [b \in 1..3 |-> IF b \in internal THEN {"BBF_INTERNAL"} ELSE {}],
                                   [b \in 1..3 |-> IF b = 3 THEN 1 ELSE w[b]], lir)} :
                  InitFrom(g)

\* BB02 and BB03 are empty and jump to their next blocks, BB02 with BB01 or
\* nothing before it; BB01 and BB04 end as they like; any block may have to stay
InitSimpChain ==
    \E j1 \in SimpJumps(4, 2), j4 \in [kind : {"BBJ_ALWAYS"}, dest : 1..4]
                                     \cup [kind : {"BBJ_RETURN"}, dest : {NoBlock}] :
      \E code \in SUBSET {1, 4}, keep \in SUBSET (1..4), se \in BOOLEAN :
        /\ j1.kind = "BBJ_COND" => 1 \notin code
        /\ j1.kind # "BBJ_COND" => ~se
        /\ \E jmp \in {<<j1, [kind |-> "BBJ_ALWAYS", dest |-> 3], [kind |-> "BBJ_ALWAYS", dest |-> 4], j4>>} :
             \E g \in {SimpGraph(4, jmp, [b \in 1..4 |-> <<>>],
                                 [b \in 1..4 |-> SimpStmts(b, jmp[b].kind, b \in code, se)],
                                 [b \in 1..4 |-> IF b \in keep THEN {"BBF_DONT_REMOVE"} ELSE {}],
                                 [b \in 1..4 |-> 1], FALSE)} :
               InitFrom(g)

InitSimp ==
    /\ InitSimpFlow \/ InitSimpJoinFree \/ InitSimpStmts \/ InitSimpChain
    /\ pc = "start"
    /\ loc = [before |-> <<>>]

\* the phase that updates the flow graph
UpdateFlowGraph ==
    /\ pc = "start"
    /\ \E g0 \in {G} : \E r \in {fgUpdateFlowGraph(g0)} :
          /\ SetG(r.g)
          /\ loc' = [before |-> g0, modified |-> r.modified, ok |-> r.ok, did |-> r.did,
                     diverged |-> r.diverged]
    /\ pc' = "updated"

\* the phase again, on the graph it has left
UpdateFlowGraphAgain ==
    /\ pc = "updated" /\ ~fatal /\ ~loc.diverged
    /\ \E g0 \in {G} : \E r \in {fgUpdateFlowGraph(g0)} :
          /\ SetG(r.g)
          /\ loc' = [before |-> g0, modified |-> r.modified, ok |-> r.ok, did |-> r.did,
                     diverged |-> r.diverged, first |-> loc.modified]
    /\ pc' = "again"

\* fgCompactBlocks on a block and its next block that fgCanCompactBlocks accepts
CompactBlocks ==
    /\ pc = "start"
    /\ \E g0 \in {G} : \E block \in Blocks(g0) :
          /\ fgCanCompactBlocks(g0, block, Next(g0, block))
          /\ \E g1 \in {fgCompactBlocks(g0, block, Next(g0, block))} : SetG(g1)
          /\ loc' = [before |-> g0, block |-> block, bNext |-> Next(g0, block)]
    /\ pc' = "compacted"

\* fgRemoveConditionalJump on a conditional jump to the next block
RemoveConditionalJump ==
    /\ pc = "start"
    /\ \E g0 \in {G} : \E block \in Blocks(g0) :
          /\ g0.kind[block] = "BBJ_COND" /\ g0.dest[block] = Next(g0, block)
          /\ \E g1 \in {fgRemoveConditionalJump(g0, block)} : SetG(g1)
          /\ loc' = [before |-> g0, block |-> block]
    /\ pc' = "rewritten"

\* fgOptimizeSwitchBranches on a switch block
OptimizeSwitchBranches ==
    /\ pc = "start"
    /\ \E g0 \in {G} : \E block \in Blocks(g0) :
          /\ g0.kind[block] = "BBJ_SWITCH"
          /\ \E r \in {fgOptimizeSwitchBranches(g0, block, MaxRewrites)} :
                /\ SetG(r.g)
                /\ loc' = [before |-> g0, block |-> block, result |-> r.result, diverged |-> r.diverged]
    /\ pc' = "switched"

\* fgOptimizeBranchToEmptyUnconditional on a jump to an empty unconditional jump
\* that is not the next block, in the graph as it is given or as a compaction
\* has left it
OptimizeBranchToEmptyUnconditional ==
    /\ pc \in {"start", "compacted"} /\ ~fatal
    /\ \E g0 \in {G} : \E block \in Blocks(g0) :
          /\ g0.kind[block] \in {"BBJ_ALWAYS", "BBJ_COND"}
          /\ \E bDest \in {g0.dest[block]} :
                /\ bDest # Next(g0, block)
                /\ isEmpty(g0, bDest) /\ g0.kind[bDest] = "BBJ_ALWAYS" /\ g0.dest[bDest] # bDest
                /\ \E r \in {fgOptimizeBranchToEmptyUnconditional(g0, block, bDest)} :
                      /\ SetG(r.g)
                      /\ loc' = [before |-> g0, block |-> block, bDest |-> bDest, result |-> r.result,
                                 compacted |-> pc = "compacted"]
    /\ pc' = "redirected"

NextSimp ==
    \/ UpdateFlowGraph \/ UpdateFlowGraphAgain \/ CompactBlocks \/ RemoveConditionalJump
    \/ OptimizeSwitchBranches \/ OptimizeBranchToEmptyUnconditional

SpecSimp == InitSimp /\ [][NextSimp]_vars

\* fgUpdateFlowGraph on a graph the importer can leave trips no noway_assert
SimpNoFatal == pc \in {"updated", "again", "compacted", "rewritten", "switched"} => ~fatal

\* fgUpdateFlowGraph returns before MaxRewrites changes
SimpReturns == pc \in {"updated", "again"} => ~loc.diverged

-----------------------------------------------------------------------------
(* Claims on the simplifier *)

\* C2: after each rewrite of the simplifier (a conditional jump to the next block
\* made unconditional, a jump threaded through an empty jump, a switch threaded or
\* degenerated, two blocks compacted, a conditional jump reversed around an empty
\* jump) the duplicate count of every predecessor edge s -> t is the number of
\* successor slots of s that designate t, and the reference count of t is the sum
\* of the duplicate counts of its predecessor edges plus its fixed references
C2_RewritesKeepPredsConsistent ==
    /\ pc \in {"updated", "again"} => loc.ok
    /\ pc \in {"compacted", "rewritten"} /\ ~fatal => PredsConsistent(G)

\* fgUpdateFlowGraph has made three kinds of rewrite at least, each on a
\* consistent graph, and left a consistent graph
C2_Witness ==
    /\ pc = "updated" /\ ~fatal /\ loc.ok
    /\ Cardinality(loc.did \cap Rewrites) >= 3
    /\ PredsConsistent(loc.before) /\ PredsConsistent(G)

\* C8: fgUpdateFlowGraph called again on the graph it has left, with no edit in
\* between, changes nothing of the graph and returns false
C8_SecondUpdateChangesNothing ==
    pc = "again" => loc.modified = FALSE /\ G = loc.before

\* the first call has modified the graph, and the second has returned
C8_Witness ==
    pc = "again" /\ loc.first /\ ~loc.diverged /\ ~loc.modified /\ G = loc.before

\* the statements of A are the former statements of A followed by those of B
C9_StmtsJoined(g0, A, B) == bbStmtList[A] = g0.stmts[A] \o g0.stmts[B]

\* every former statement of A and of B is in A once
C9_NoStmtLost(g0, A, B) ==
    \A x \in SeqToSet(g0.stmts[A] \o g0.stmts[B]) :
        Cardinality({i \in 1..Len(bbStmtList[A]) : bbStmtList[A][i] = x}) = 1

\* A has the jump kind and the targets B had (A itself where B was its own target)
C9_JumpsTaken(g0, A, B) ==
    /\ bbJumpKind[A] = g0.kind[B]
    /\ Slots(G, A) = ReplaceIn(Slots(g0, B), B, A)

\* A has taken the place of B, with its duplicate count, in the predecessor list
\* of every former successor of B
C9_PredsReplaced(g0, A, B) ==
    /\ \A t \in SeqToSet(Slots(g0, B)) \ {B} :
          bbPreds[t][B] = 0 /\ bbPreds[t][A] = g0.preds[t][B]
    /\ B \in SeqToSet(Slots(g0, B)) => bbPreds[A][B] = 0 /\ bbPreds[A][A] = g0.preds[B][B]

\* B is flagged removed and is out of the block list
C9_Retired(B) == "BBF_REMOVED" \in bbFlags[B] /\ B \notin Blocks(G)

\* C9: fgCompactBlocks(A, B) leaves the statements of A equal to the former
\* statements of A followed by the former statements of B, none lost or
\* duplicated, gives A the jump kind and the targets of B, puts A for B with the
\* same duplicate count in the predecessor list of every former successor of B,
\* and leaves B flagged removed and unlinked
C9_CompactBlocks ==
    pc = "compacted" /\ ~fatal =>
        /\ C9_StmtsJoined(loc.before, loc.block, loc.bNext)
        /\ C9_NoStmtLost(loc.before, loc.block, loc.bNext)
        /\ C9_JumpsTaken(loc.before, loc.block, loc.bNext)
        /\ C9_PredsReplaced(loc.before, loc.block, loc.bNext)
        /\ C9_Retired(loc.bNext)


-----------------------------------------------------------------------------
(* Claims on call-finally pairs and on the removal passes *)

\* the BBJ_CALLFINALLY / BBJ_ALWAYS pairs of the graph the elimination started from
RemPairs ==
    {<<loc.pre.list[i], loc.pre.list[i + 1]>> : i \in {j \in 1..(Len(loc.pre.list) - 1) :
        /\ loc.pre.kind[loc.pre.list[j]] = "BBJ_CALLFINALLY"
        /\ "BBF_RETLESS_CALL" \notin loc.pre.flags[loc.pre.list[j]]
        /\ loc.pre.kind[loc.pre.list[j + 1]] = "BBJ_ALWAYS"}}

\* C11 as stated: when the elimination returns, of every call-finally/always pair
\* either both blocks are deleted or neither is
C11_PairDeletedTogether ==
    (pc \in {"early", "late"} /\ ~fatal) =>
        \A p \in RemPairs : (p[1] \in Blocks(G)) <=> (p[2] \in Blocks(G))

\* C11 amended: the BBJ_ALWAYS tail is deleted whenever its BBJ_CALLFINALLY block is
\* selected; the call block is deleted with it unless it is BBF_DONT_REMOVE, and then
\* it stays as an empty BBJ_THROW block; a tail is deleted without its call block
\* only in that case or when the tail itself was selected as unreachable
C11_TailDeletedWithCall ==
    (pc \in {"early", "late"} /\ ~fatal) =>
        \A p \in RemPairs :
            /\ p[1] \in loc.selected => p[2] \notin Blocks(G)
            /\ p[1] \notin Blocks(G) => p[1] \in loc.selected /\ p[2] \notin Blocks(G)
            /\ (p[1] \in loc.selected /\ "BBF_DONT_REMOVE" \notin loc.pre.flags[p[1]])
                  => p[1] \notin Blocks(G)
            /\ (p[1] \in loc.selected /\ "BBF_DONT_REMOVE" \in loc.pre.flags[p[1]])
                  => RemConverted(p[1])
            /\ (p[2] \notin Blocks(G) /\ p[1] \in Blocks(G))
                  => \/ p[1] \in loc.selected /\ "BBF_DONT_REMOVE" \in loc.pre.flags[p[1]]
                     \/ p[2] \in loc.selected

\* an elimination that deleted one pair whole and of another pair the tail alone
C11_Witness ==
    /\ pc \in {"early", "late"} /\ ~fatal
    /\ \E p \in RemPairs, q \in RemPairs :
          /\ p[1] \notin Blocks(G) /\ p[2] \notin Blocks(G)
          /\ q[1] \in Blocks(G) /\ q[2] \notin Blocks(G)


\* C12: when fgDfsReversePostorder has run over the N blocks of the list, the preorder
\* numbers and the postorder numbers are each a permutation of 1..N, and
\* fgBBReversePostorder[N - postorder(b) + 1] = b for every block b
C12_DfsNumbersArePermutations ==
    (pc \in {"reach", "doms"} /\ ~fatal) =>
        /\ {bbPreorderNum[b] : b \in Blocks(G)} = 1..fgBBcount(G)
        /\ {bbPostorderNum[b] : b \in Blocks(G)} = 1..fgBBcount(G)
        /\ \A b \in Blocks(G) : fgBBReversePostorder[fgBBcount(G) - bbPostorderNum[b] + 1] = b

\* a walk over three blocks or more that met an edge to a block already visited and
\* had to start again at a block no root reaches
C12_Witness ==
    /\ pc \in {"reach", "doms"} /\ ~fatal /\ fgBBcount(G) >= 3
    /\ \E a \in Blocks(G) : \E s \in SeqToSet(Succs(G, a)) : bbPreorderNum[s] <= bbPreorderNum[a]
    /\ \E b \in Blocks(G) \ ({fgFirstBB(G), fgEntryBB} \cup EHRoots(G)) :
          /\ bbRefs[b] = 0
          /\ bbPreorderNum[b] > 1
          /\ bbPostorderNum[b] # bbPreorderNum[b]


-----------------------------------------------------------------------------
(* Claims on the return of fgUpdateFlowGraph *)

\* C13: fgUpdateFlowGraph terminates on every flow graph, the graphs with cycles of
\* empty unconditional jumps included: the call returns, it does not go on
\* retargeting a jump for ever
C13_UpdateFlowGraphTerminates ==
    pc = "updated" => (~loc.diverged \/ fatal)


\* C14: the loops of fgComputeReachability and fgRemoveDeadBlocks run
\* fgRemoveUnreachableBlocks at most MaxRemovalPasses times; when the pass that
\* reaches the limit still reports a change, the loop raises the fatal failure and
\* runs no further pass, and it raises that failure in no other case
C14_RemovalPassesCapped ==
    pc \in {"early", "late"} =>
        /\ loc.passes <= MaxRemovalPasses
        /\ (loc.passes = MaxRemovalPasses /\ loc.changed) => (fatal /\ loc.capped)
        /\ loc.capped => (fatal /\ loc.passes = MaxRemovalPasses /\ loc.changed)
        /\ (~loc.capped /\ ~fatal) => ~loc.changed

\* a loop that gave up after MaxRemovalPasses passes that all reported a change
C14_Witness ==
    /\ pc \in {"early", "late"}
    /\ fatal /\ loc.capped /\ loc.passes = MaxRemovalPasses /\ loc.changed

\* a loop whose last allowed pass reported no change, and that returned
C14_WitnessReturned ==
    /\ pc \in {"early", "late"}
    /\ ~fatal /\ ~loc.capped /\ loc.passes = MaxRemovalPasses /\ ~loc.changed


-----------------------------------------------------------------------------
(* fgUpdateFlowGraph and the flag of the dominators *)

\* Compiler::fgUpdateFlowGraphPhase: the update, after which the dominators and
\* the reachability sets are no longer valid
fgUpdateFlowGraphPhase(gg) ==
    With(fgUpdateFlowGraph(gg), LAMBDA r : [r EXCEPT !.g.domsComputed = FALSE])

\* flow graphs that fgComputeReachability has left
InitPhase ==
    /\ SimpFlowInit(TRUE)
    /\ pc = "start"
    /\ loc = [before |-> <<>>]

\* the update run as a phase
UpdateFlowGraphPhase ==
    /\ pc = "start"
    /\ \E g0 \in {G} : \E r \in {fgUpdateFlowGraphPhase(g0)} :
          /\ SetG(r.g)
          /\ loc' = [before |-> g0, modified |-> r.modified, ok |-> r.ok, did |-> r.did,
                     diverged |-> r.diverged]
    /\ pc' = "phase"

\* the update called as fgUpdateFlowGraphPhase calls it, or directly as
\* fgReorderBlocks calls it
NextPhase == UpdateFlowGraphPhase \/ UpdateFlowGraph

SpecPhase == InitPhase /\ [][NextPhase]_vars

\* C16: when fgUpdateFlowGraph has modified the flow graph, fgDomsComputed is false
\* on return to the caller, whether the call went through fgUpdateFlowGraphPhase
\* or was a direct call
C16_ModifiedClearsDomsComputed ==
    (pc \in {"phase", "updated"} /\ ~fatal /\ ~loc.diverged /\ loc.modified) => ~fgDomsComputed

\* the same of the calls through fgUpdateFlowGraphPhase alone
PhaseClearsDomsComputed ==
    (pc = "phase" /\ ~fatal /\ ~loc.diverged) => ~fgDomsComputed

\* the dominators were computed when the update was called
PhaseStartsWithDoms ==
    pc \in {"phase", "updated"} => (loc.before.domsComputed /\ ~loc.before.fatal)


-----------------------------------------------------------------------------
(* Claims on the scenarios of the simplifier *)

\* the first blocks of the chains B1 -> B2 -> B3 of graph g: three consecutive
\* blocks, B1 and B2 without statements, B1 jumping unconditionally to B2 and B2
\* to B3, B1 the only predecessor of B2
EmptyChains(g) ==
    {b1 \in Blocks(g) :
        /\ Next(g, b1) # NoBlock /\ Next(g, Next(g, b1)) # NoBlock
        /\ g.kind[b1] = "BBJ_ALWAYS" /\ g.dest[b1] = Next(g, b1)
        /\ g.kind[Next(g, b1)] = "BBJ_ALWAYS" /\ g.dest[Next(g, b1)] = Next(g, Next(g, b1))
        /\ g.refs[Next(g, b1)] = 1 /\ g.stmts[b1] = <<>> /\ g.stmts[Next(g, b1)] = <<>>}

C19_WitnessAbsorbed ==
    /\ pc = "updated" /\ ~fatal /\ ~loc.diverged
    /\ \E b1 \in EmptyChains(loc.before) :
         /\ {b1, Next(loc.before, b1), Next(loc.before, Next(loc.before, b1))} \cap Blocks(G) = {b1}
         /\ bbStmtList[b1] # <<>>
         /\ bbJumpKind[b1] = "BBJ_RETURN"


-----------------------------------------------------------------------------
(* Claims on the switch with one significant case *)

\* the selector values the claims go through
MaxSelector == 2

\* where a switch goes on selector value v: the last entry of its jump table is
\* the default case
SwitchTaken(jmpTab, v) == IF v + 1 < Len(jmpTab) THEN jmpTab[v + 1] ELSE jmpTab[Len(jmpTab)]

\* where a BBJ_COND block that ends with GT_JTRUE(GT_EQ(switchVal, 0)) goes on
\* selector value v
CondTaken(g, block, v) ==
    IF (v = 0) # g.stmts[block][Len(g.stmts[block])].rev THEN g.dest[block] ELSE Next(g, block)

\* the block is a BBJ_COND block that tests switchVal == 0, jumps to X on equality
\* and falls through to F
CondOnZero(g, block, X, F) ==
    /\ g.kind[block] = "BBJ_COND" /\ g.dest[block] = X /\ Next(g, block) = F
    /\ g.stmts[block] # <<>>
    /\ g.stmts[block][Len(g.stmts[block])].tree = "GT_JTRUE(GT_EQ(switchVal, 0))"
    /\ \A v \in 0..MaxSelector : CondTaken(g, block, v) = IF v = 0 THEN X ELSE F

\* fgOptimizeSwitchBranches replaces a jump table entry that is such a block by
\* the target of the block
EmptyJump(g, b) == isEmpty(g, b) /\ g.kind[b] = "BBJ_ALWAYS" /\ g.dest[b] # b

\* C18 as stated: a switch with the jump table [X, F], F its next block and X # F,
\* comes out of fgOptimizeSwitchBranches as a BBJ_COND block that jumps to X when
\* the selector is 0 and falls through to F otherwise
C18_TwoEntrySwitchBecomesCond ==
    (pc = "switched" /\ ~fatal /\ ~loc.diverged) =>
        \A X, F \in Blocks(loc.before) :
            (loc.before.swt[loc.block] = <<X, F>> /\ F = Next(loc.before, loc.block) /\ X # F)
                => CondOnZero(G, loc.block, X, F)

\* C18 (amended): the conversion applies to the jump table as it is after every
\* entry that is an empty unconditional jump to another block has been replaced by
\* the target of that jump.  When neither X nor F is such a block, the switch with
\* the table [X, F], F its next block, X # F, becomes a BBJ_COND block that ends
\* with GT_JTRUE(GT_EQ(switchVal, 0)), jumps to X when the selector is 0 and falls
\* through to F otherwise, and the call returns true; whenever the call leaves a
\* BBJ_COND block at all, that block tests switchVal == 0 and goes where the
\* switch went, up to the empty jumps it skips.
C18_UnthreadedTwoEntrySwitchBecomesCond ==
    (pc = "switched" /\ ~fatal /\ ~loc.diverged) =>
        /\ \A X, F \in Blocks(loc.before) :
              (/\ loc.before.swt[loc.block] = <<X, F>> /\ F = Next(loc.before, loc.block) /\ X # F
               /\ ~EmptyJump(loc.before, X) /\ ~EmptyJump(loc.before, F))
                  => (CondOnZero(G, loc.block, X, F) /\ loc.result)
        /\ bbJumpKind[loc.block] = "BBJ_COND" =>
              /\ Len(loc.before.swt[loc.block]) = 2 /\ loc.result
              /\ CondOnZero(G, loc.block, bbJumpDest[loc.block], Next(G, loc.block))
              /\ \A v \in 0..MaxSelector :
                    \A t \in {SwitchTaken(loc.before.swt[loc.block], v)} :
                        \/ CondTaken(G, loc.block, v) = t
                        \/ EmptyJump(loc.before, t)

\* a switch on [BB03, BB02] in BB01 has become a conditional jump to BB03
C18_Witness ==
    /\ pc = "switched" /\ ~fatal /\ ~loc.diverged /\ loc.block = 1
    /\ loc.before.swt[1] = <<3, 2>> /\ loc.before.list = <<1, 2, 3>>
    /\ ~EmptyJump(loc.before, 3) /\ ~EmptyJump(loc.before, 2)
    /\ CondOnZero(G, 1, 3, 2)
    /\ bbRefs[3] = loc.before.refs[3] /\ bbJumpSwt[1] = <<>>


-----------------------------------------------------------------------------
(* fgHeadTailMerge *)

\* the statements merging looks at are local stores, GT_NOP and the node that
\* ends a block; GenTree::Compare compares the trees
Compare(stmt1, stmt2) == stmt1.tree = stmt2.tree

mergeLimit == 50

BBF_COPY_PROPAGATE ==
    {"BBF_HAS_NEWOBJ", "BBF_HAS_NEWARR", "BBF_HAS_NULLCHECK", "BBF_HAS_IDX_LEN", "BBF_HAS_MD_IDX_LEN",
     "BBF_HAS_MDARRAYREF"}

\* BasicBlock::HasTerminator
HasTerminator(g, b) ==
    g.kind[b] \in {"BBJ_EHFINALLYRET", "BBJ_EHFAULTRET", "BBJ_EHFILTERRET", "BBJ_COND", "BBJ_SWITCH",
                   "BBJ_RETURN"}

\* BasicBlock::GetUniqueSucc
GetUniqueSucc(g, b) == IF g.kind[b] = "BBJ_ALWAYS" THEN g.dest[b] ELSE NoBlock

\* BasicBlock::GetUniquePred
GetUniquePred(g, b) ==
    IF g.refs[b] = 1 /\ b # fgFirstBB(g) /\ PredSet(g, b) # {} THEN CHOOSE p \in PredSet(g, b) : TRUE
    ELSE NoBlock

\* Compiler::fgBBisScratch
fgBBisScratch(g, b) == b = fgFirstBB(g) /\ "BBF_INTERNAL" \in g.flags[b]

\* Compiler::fgUnlinkStmt
fgUnlinkStmt(gg, block, stmt) ==
    With(gg, LAMBDA g :
    [g EXCEPT !.stmts[block] = SelectSeq(@, LAMBDA s : s.id # stmt.id)])

\* the insertion at the end of the block
fgInsertStmtAtBeg_AtEnd(gg, block, stmt) == [gg EXCEPT !.stmts[block] = Append(@, stmt)]

\* Compiler::fgInsertStmtAtBeg of a statement that is no phi definition
fgInsertStmtAtBeg(gg, block, stmt) ==
    With(gg, LAMBDA g :
    With(Cardinality({i \in 1..Len(g.stmts[block]) : g.stmts[block][i].phi}), LAMBDA phis :
    [g EXCEPT !.stmts[block] = SubSeq(@, 1, phis) \o <<stmt>> \o SubSeq(@, phis + 1, Len(@))]))

\* Compiler::fgInsertStmtNearEnd: before the node that ends the block, if any
fgInsertStmtNearEnd(gg, block, stmt) ==
    With(gg, LAMBDA g :
    IF HasTerminator(g, block) /\ g.stmts[block] # <<>>
    THEN [g EXCEPT !.stmts[block] = SubSeq(@, 1, Len(@) - 1) \o <<stmt, @[Len(@)]>>]
    ELSE [g EXCEPT !.stmts[block] = Append(@, stmt)])

\* Compiler::fgSplitBlockAfterStatement: the statements after stmt go to a new
\* block that takes the jump of curr, and curr jumps to the new block
fgSplitBlockAfterStatement(gg, curr, stmt) ==
    With(gg, LAMBDA g :
    With(fgNewBBafter(g, g.kind[curr], curr, g.dest[curr]), LAMBDA g1 :
    With(Next(g1, curr), LAMBDA newBlock :
    With(CHOOSE i \in 1..Len(g.stmts[curr]) : g.stmts[curr][i].id = stmt.id, LAMBDA i :
    With([g1 EXCEPT !.flags[newBlock] = g.flags[curr] \ {"BBF_DONT_REMOVE"},
                    !.swt[newBlock] = g.swt[curr], !.ehf[newBlock] = g.ehf[curr],
                    !.swt[curr] = <<>>, !.ehf[curr] = <<>>,
                    !.swtDom[newBlock] = g.swtDom[curr], !.swtDom[curr] = NoDominantCase,
                    !.stmts[newBlock] = SubSeq(g.stmts[curr], i + 1, Len(g.stmts[curr])),
                    !.stmts[curr] = SubSeq(g.stmts[curr], 1, i),
                    !.kind[curr] = "BBJ_ALWAYS", !.dest[curr] = newBlock,
                    !.flags[curr] = @ \cup {"BBF_NONE_QUIRK"}], LAMBDA g2 :
    fgAddRefPred(ReplacePreds(g2, Succs(g, curr), curr, newBlock), newBlock, curr))))))


\* the last statement of a list that is no GT_NOP: its index, or 0
LastNonNop(ss) ==
    IF \A i \in 1..Len(ss) : ss[i].tree = "GT_NOP" THEN 0
    ELSE CHOOSE i \in 1..Len(ss) :
             ss[i].tree # "GT_NOP" /\ \A j \in (i + 1)..Len(ss) : ss[j].tree = "GT_NOP"

\* tailMerge of fgHeadTailMerge: the predecessors that reach block along
\* non-critical edges, each with its last statement, in the order they are pushed
PredInfoOf(g, block) ==
    With(SelectSeq(PredBlocks(g, block),
                   LAMBDA p : /\ GetUniqueSucc(g, p) = block /\ sameEHRegion(g, block, p)
                              /\ LastNonNop(g.stmts[p]) > 0), LAMBDA cands :
    [i \in 1..Len(cands) |-> [block |-> cands[i],
                              stmt |-> g.stmts[cands[i]][LastNonNop(g.stmts[cands[i]])]]])

\* tailMergePreds: "move that statement to the start of block" for the matched
\* predecessors from the j-th on
RECURSIVE MoveToSucc(_, _, _, _)
MoveToSucc(gg, commSucc, matched, j) ==
    With(gg, LAMBDA g :
    IF j > Len(matched) THEN g
    ELSE With(fgUnlinkStmt(g, matched[j].block, matched[j].stmt), LAMBDA g1 :
         MoveToSucc(IF j = 1
                    THEN [fgInsertStmtAtBeg(g1, commSucc, matched[j].stmt) EXCEPT
                             !.flags[commSucc] = @ \cup (g.flags[matched[j].block] \cap BBF_COPY_PROPAGATE)]
                    ELSE g1,
                    commSucc, matched, j + 1)))

\* the first matched predecessor that is not the scratch block taken as the victim
CrossJumpVictim_FirstCandidate(g, matched, j, v) ==
    With({k \in j..Len(matched) : ~fgBBisScratch(g, matched[k].block)}, LAMBDA K :
    IF K = {} THEN v
    ELSE With(CHOOSE k \in K : \A k2 \in K : k <= k2, LAMBDA k :
         [index |-> k,
          haveNoSplitVictim |-> matched[k].stmt.id = g.stmts[matched[k].block][1].id,
          haveFallThroughVictim |-> /\ g.kind[matched[k].block] = "BBJ_ALWAYS"
                                    /\ g.dest[matched[k].block] = Next(g, matched[k].block)]))

\* tailMergePreds: the choice of the victim of the cross jump among the matched
\* predecessors from the j-th on; v is the choice so far
RECURSIVE CrossJumpVictim(_, _, _, _)
CrossJumpVictim(g, matched, j, v) ==
    IF j > Len(matched) \/ (v.haveNoSplitVictim /\ v.haveFallThroughVictim) THEN v
    ELSE With(matched[j].block, LAMBDA predBlock :
         IF fgBBisScratch(g, predBlock) THEN CrossJumpVictim(g, matched, j + 1, v)
         ELSE With(matched[j].stmt.id = g.stmts[predBlock][1].id, LAMBDA isNoSplit :
              With(g.kind[predBlock] = "BBJ_ALWAYS" /\ g.dest[predBlock] = Next(g, predBlock),
                   LAMBDA isFallThrough :
              IF \/ v.index = 0
                 \/ isNoSplit /\ isFallThrough
                 \/ ~v.haveNoSplitVictim /\ isNoSplit
                 \/ ~v.haveNoSplitVictim /\ ~v.haveFallThroughVictim /\ isFallThrough
              THEN CrossJumpVictim(g, matched, j + 1,
                                   [index |-> j, haveNoSplitVictim |-> isNoSplit,
                                    haveFallThroughVictim |-> isFallThrough])
              ELSE CrossJumpVictim(g, matched, j + 1, v))))

\* tailMergePreds: "Do the cross jumping" for the matched predecessors from the
\* j-th on
RECURSIVE CrossJump(_, _, _, _, _, _)
CrossJump(gg, commSucc, matched, j, crossJumpVictim, crossJumpTarget) ==
    With(gg, LAMBDA g :
    IF j > Len(matched) THEN g
    ELSE With(matched[j].block, LAMBDA predBlock :
         IF predBlock = crossJumpVictim
         THEN CrossJump(g, commSucc, matched, j + 1, crossJumpVictim, crossJumpTarget)
         ELSE With([fgUnlinkStmt(g, predBlock, matched[j].stmt) EXCEPT
                       !.kind[predBlock] = "BBJ_ALWAYS", !.dest[predBlock] = crossJumpTarget], LAMBDA g1 :
              With(IF commSucc # NoBlock THEN fgRemoveRefPred(g1, commSucc, predBlock) ELSE g1, LAMBDA g2 :
              CrossJump(fgAddRefPred(g2, crossJumpTarget, predBlock),
                        commSucc, matched, j + 1, crossJumpVictim, crossJumpTarget)))))

\* tailMergePreds of fgHeadTailMerge on the predecessors predInfo of commSucc
\* (NoBlock for the return blocks): the state, and whether to try again
tailMergePreds(st, commSucc, predInfo) ==
    With(st, LAMBDA s : With(s.g, LAMBDA g : With(predInfo, LAMBDA P :
    With({k0 \in 2..Len(P) : \E k \in 1..(k0 - 1) : Compare(P[k0].stmt, P[k].stmt)}, LAMBDA K :
    IF Len(P) < 2 \/ Len(P) > mergeLimit \/ K = {} THEN [s |-> s, again |-> FALSE]
    ELSE With(CHOOSE k0 \in K : \A k \in K : k <= k0, LAMBDA k0 :
         With(SelectSeq(SubSeq(P, 1, k0), LAMBDA e : Compare(P[k0].stmt, e.stmt)), LAMBDA matched :
         IF commSucc # NoBlock /\ Len(matched) = g.refs[commSucc]
         THEN [s |-> [s EXCEPT !.g = MoveToSucc(g, commSucc, matched, 1), !.madeChanges = TRUE],
               again |-> TRUE]
         ELSE With(CrossJumpVictim(g, matched, 1, [index |-> 0, haveNoSplitVictim |-> FALSE,
                                                   haveFallThroughVictim |-> FALSE]), LAMBDA v :
              IF v.index = 0 THEN [s |-> [s EXCEPT !.g.fatal = TRUE], again |-> FALSE]
              ELSE With(matched[v.index].block, LAMBDA crossJumpVictim :
                   With(IF v.haveNoSplitVictim THEN g
                        ELSE fgSplitBlockAfterStatement(
                                 g, crossJumpVictim,
                                 g.stmts[crossJumpVictim][LastNonNop(g.stmts[crossJumpVictim]) - 1]),
                        LAMBDA g1 :
                   With(IF v.haveNoSplitVictim THEN crossJumpVictim ELSE Next(g1, crossJumpVictim),
                        LAMBDA crossJumpTarget :
                   [s |-> [s EXCEPT !.g = CrossJump(g1, commSucc, matched, 1, crossJumpVictim,
                                                    crossJumpTarget),
                                    !.madeChanges = TRUE,
                                    !.retryBlocks = <<crossJumpTarget>> \o @],
                    again |-> TRUE]))))))))))

\* tailMerge of fgHeadTailMerge
tailMerge(st, block) ==
    With(st, LAMBDA s :
    IF s.g.refs[block] < 2 THEN [s |-> s, again |-> FALSE]
    ELSE tailMergePreds(s, block, PredInfoOf(s.g, block)))

\* iterateTailMerge of fgHeadTailMerge
RECURSIVE iterateTailMerge(_, _)
iterateTailMerge(st, block) ==
    With(tailMerge(st, block), LAMBDA t :
    IF t.again /\ ~t.s.g.fatal THEN iterateTailMerge(t.s, block) ELSE t.s)


\* the local a store statement writes, "" for the other trees
StoreLcl(tree) == CASE tree = "x = 5" -> "x" [] tree = "y = 7" -> "y" [] OTHER -> ""

\* Compiler::gtHasRef on the trees that end a block
gtHasRef(tree, lcl) == <<tree, lcl>> \in {<<"GT_JTRUE(x != 0)", "x">>, <<"GT_RETURN(x)", "x">>}

\* Compiler::fgCanMoveFirstStatementIntoPred: the trees here have no calls, no
\* exceptions, no global references and no embedded stores, and their locals are
\* not address exposed; a store does not move over a use of its local
fgCanMoveFirstStatementIntoPred(g, firstStmt, pred) ==
    \/ ~HasTerminator(g, pred)
    \/ StoreLcl(firstStmt.tree) = ""
    \/ ~gtHasRef(g.stmts[pred][Len(g.stmts[pred])].tree, StoreLcl(firstStmt.tree))

\* the first statement of a list that is no GT_NOP: its index, or 0
FirstNonNop(ss) ==
    IF \A i \in 1..Len(ss) : ss[i].tree = "GT_NOP" THEN 0
    ELSE CHOOSE i \in 1..Len(ss) : ss[i].tree # "GT_NOP" /\ \A j \in 1..(i - 1) : ss[j].tree = "GT_NOP"

\* getSuccCandidate of fgTryOneHeadMerge
getSuccCandidate(g, block, succ) ==
    /\ GetUniquePred(g, succ) = block
    /\ sameEHRegion(g, block, succ)
    /\ FirstNonNop(g.stmts[succ]) > 0
    /\ ~(FirstNonNop(g.stmts[succ]) = Len(g.stmts[succ]) /\ HasTerminator(g, succ))

\* the head merge that leaves the first statement of the jump target in place
fgTryOneHeadMerge_KeepDest(gg, block) ==
    With(gg, LAMBDA g :
    With(Next(g, block), LAMBDA bNext : With(g.dest[block], LAMBDA bDest :
    IF \/ g.kind[block] # "BBJ_COND" \/ bDest = bNext
       \/ ~getSuccCandidate(g, block, bNext) \/ ~getSuccCandidate(g, block, bDest)
    THEN [g |-> g, result |-> FALSE]
    ELSE With(g.stmts[bNext][FirstNonNop(g.stmts[bNext])], LAMBDA nextFirstStmt :
         With(g.stmts[bDest][FirstNonNop(g.stmts[bDest])], LAMBDA destFirstStmt :
         IF \/ ~Compare(nextFirstStmt, destFirstStmt)
            \/ ~fgCanMoveFirstStatementIntoPred(g, nextFirstStmt, block)
         THEN [g |-> g, result |-> FALSE]
         ELSE [g |-> fgInsertStmtNearEnd(fgUnlinkStmt(g, bNext, nextFirstStmt), block, nextFirstStmt),
               result |-> TRUE])))))

\* Compiler::fgTryOneHeadMerge: the graph and the value returned
fgTryOneHeadMerge(gg, block) ==
    With(gg, LAMBDA g :
    With(Next(g, block), LAMBDA bNext : With(g.dest[block], LAMBDA bDest :
    IF \/ g.kind[block] # "BBJ_COND" \/ bDest = bNext
       \/ ~getSuccCandidate(g, block, bNext) \/ ~getSuccCandidate(g, block, bDest)
    THEN [g |-> g, result |-> FALSE]
    ELSE With(g.stmts[bNext][FirstNonNop(g.stmts[bNext])], LAMBDA nextFirstStmt :
         With(g.stmts[bDest][FirstNonNop(g.stmts[bDest])], LAMBDA destFirstStmt :
         IF \/ ~Compare(nextFirstStmt, destFirstStmt)
            \/ ~fgCanMoveFirstStatementIntoPred(g, nextFirstStmt, block)
         THEN [g |-> g, result |-> FALSE]
         ELSE [g |-> [fgUnlinkStmt(fgInsertStmtNearEnd(fgUnlinkStmt(g, bNext, nextFirstStmt),
                                                       block, nextFirstStmt),
                                   bDest, destFirstStmt) EXCEPT
                         !.flags[block] = @ \cup (g.flags[bNext] \cap BBF_COPY_PROPAGATE)],
               result |-> TRUE])))))

\* Compiler::fgHeadMerge
RECURSIVE fgHeadMerge(_, _)
fgHeadMerge(st, block) ==
    With(fgTryOneHeadMerge(st.g, block), LAMBDA h :
    IF h.result THEN fgHeadMerge([st EXCEPT !.g = h.g, !.madeChanges = TRUE], block) ELSE st)

\* fgHeadTailMerge: "Visit each block" for tail merging, from block on; the
\* return blocks with one statement are collected on the way
RECURSIVE TailMergeBlocks(_, _, _)
TailMergeBlocks(st, block, retBlocks) ==
    IF block = NoBlock \/ st.g.fatal THEN [s |-> st, retBlocks |-> retBlocks]
    ELSE With(iterateTailMerge(st, block), LAMBDA s :
         TailMergeBlocks(s, Next(s.g, block),
                         IF /\ s.g.kind[block] = "BBJ_RETURN" /\ Len(s.g.stmts[block]) = 1
                            /\ block # s.g.genReturnBB
                         THEN Append(retBlocks, block) ELSE retBlocks))

\* fgHeadTailMerge: "Work through any retries"
RECURSIVE TailMergeRetries(_)
TailMergeRetries(st) ==
    IF st.retryBlocks = <<>> \/ st.g.fatal THEN st
    ELSE TailMergeRetries(iterateTailMerge([st EXCEPT !.retryBlocks = Tail(@)], Head(st.retryBlocks)))

\* fgHeadTailMerge: "Visit each block" for head merging, from block on
RECURSIVE HeadMergeBlocks(_, _)
HeadMergeBlocks(st, block) ==
    IF block = NoBlock \/ st.g.fatal THEN st
    ELSE With(fgHeadMerge(st, block), LAMBDA s : HeadMergeBlocks(s, Next(s.g, block)))

\* fgHeadTailMerge after the visit of the blocks for tail merging
HeadTailMergeFrom(st) == HeadMergeBlocks(st, fgFirstBB(st.g))

\* Compiler::fgHeadTailMerge: the graph and whether it made changes
fgHeadTailMerge(gg, isEnabled) ==
    IF ~isEnabled THEN [g |-> gg, retryBlocks |-> <<>>, madeChanges |-> FALSE]
    ELSE With(TailMergeBlocks([g |-> gg, retryBlocks |-> <<>>, madeChanges |-> FALSE],
                              fgFirstBB(gg), <<>>), LAMBDA v :
         With(tailMergePreds(v.s, NoBlock,
                             [i \in 1..Len(v.retBlocks) |->
                                [block |-> v.retBlocks[i],
                                 stmt |-> v.s.g.stmts[v.retBlocks[i]][Len(v.s.g.stmts[v.retBlocks[i]])]]]),
              LAMBDA t :
         HeadTailMergeFrom(TailMergeRetries(t.s))))


-----------------------------------------------------------------------------
(* The flow graphs head and tail merging is run on *)

MergeTrees == {"x = 5", "y = 7", "GT_NOP"}

\* the statement lists of a predecessor: at most two statements
MergeBodies == {<<>>} \cup {<<t>> : t \in MergeTrees} \cup {<<t, u>> : t, u \in MergeTrees}

MStmt(id, tree) ==
    [SStmt(id, FALSE, tree \in {"GT_JTRUE(relop)", "GT_JTRUE(x != 0)", "GT_SWITCH(switchVal)"}, FALSE)
        EXCEPT !.tree = tree]

\* the statements of block b: the trees of body, then the node that ends the
\* block, if any
MStmts(b, body, end) ==
    [i \in 1..Len(body) |-> MStmt(10 * b + i, body[i])]
      \o (IF end = "" THEN <<>> ELSE <<MStmt(10 * b + 9, end)>>)

MJump(kind, dest) == [kind |-> kind, dest |-> dest]

\* BB01 branches to BB02 and BB03, which both jump to the join BB04; with inTry
\* BB03 is a try region whose catch handler BB05 returns to the join
InitMergeDiamond ==
    \E t2 \in MergeBodies, t3 \in MergeBodies, tj \in {<<>>, <<"y = 7">>},
       term \in {"GT_JTRUE(relop)", "GT_JTRUE(x != 0)"},
       j4 \in {MJump("BBJ_RETURN", NoBlock), MJump("BBJ_ALWAYS", 1), MJump("BBJ_ALWAYS", 4)},
       inTry \in BOOLEAN :
      \E n \in {IF inTry THEN 5 ELSE 4} :
      \E jmp \in {[b \in 1..n |->
                     CASE b = 1 -> MJump("BBJ_COND", 3)
                       [] b \in {2, 3} -> MJump("BBJ_ALWAYS", 4)
                       [] b = 4 -> j4
                       [] OTHER -> MJump("BBJ_EHCATCHRET", 4)]} :
      \E g \in {MkGraph(n, jmp, [b \in 1..n |-> <<>>], [b \in 1..n |-> <<>>],
                        [b \in 1..n |->
                           CASE b = 1 -> MStmts(b, <<>>, term)
                             [] b = 2 -> MStmts(b, t2, "")
                             [] b = 3 -> MStmts(b, t3, "")
                             [] b = 4 -> MStmts(b, tj, IF j4.kind = "BBJ_RETURN" THEN "GT_RETURN(x)" ELSE "")
                             [] OTHER -> MStmts(b, <<"x = 5">>, "")],
                        [b \in 1..n |-> IF inTry /\ b \in {3, 5} THEN {"BBF_DONT_REMOVE"} ELSE {}],
                        [b \in 1..n |-> 1],
                        [b \in 1..n |-> IF inTry /\ b = 3 THEN 1 ELSE 0],
                        [b \in 1..n |-> IF inTry /\ b = 5 THEN 1 ELSE 0],
                        IF inTry
                        THEN <<[ebdTryBeg |-> 3, ebdHndBeg |-> 5, ebdFilter |-> NoBlock,
                                ebdEnclosingTryIndex |-> 0]>>
                        ELSE <<>>,
                        NoBlock, NoBlock, {}, FALSE)} :
        InitFrom(g)

\* the join is the first block BB01: a switch to BB02, BB03 and the return
\* BB04, where BB02 and BB03 jump back to BB01
InitMergeEntry ==
    \E t2 \in MergeBodies, t3 \in MergeBodies, tj \in {<<>>, <<"y = 7">>} :
      \E jmp \in {<<MJump("BBJ_SWITCH", NoBlock), MJump("BBJ_ALWAYS", 1), MJump("BBJ_ALWAYS", 1),
                    MJump("BBJ_RETURN", NoBlock)>>} :
      \E g \in {SimpGraph(4, jmp, [b \in 1..4 |-> IF b = 1 THEN <<2, 3, 4>> ELSE <<>>],
                          [b \in 1..4 |->
                             CASE b = 1 -> MStmts(b, tj, "GT_SWITCH(switchVal)")
                               [] b = 2 -> MStmts(b, t2, "")
                               [] b = 3 -> MStmts(b, t3, "")
                               [] OTHER -> MStmts(b, <<>>, "GT_RETURN(x)")],
                          [b \in 1..4 |-> {}], [b \in 1..4 |-> 1], FALSE)} :
        InitFrom(g)

\* the switch BB01 reaches the join BB05 through BB02, BB03 and BB04
InitMergeThree ==
    \E body \in [2..4 -> {<<"x = 5">>, <<"y = 7">>, <<"y = 7", "x = 5">>, <<"x = 5", "GT_NOP">>}],
       newobj \in BOOLEAN :
      \E jmp \in {[b \in 1..5 |->
                     CASE b = 1 -> MJump("BBJ_SWITCH", NoBlock)
                       [] b = 5 -> MJump("BBJ_RETURN", NoBlock)
                       [] OTHER -> MJump("BBJ_ALWAYS", 5)]} :
      \E g \in {SimpGraph(5, jmp, [b \in 1..5 |-> IF b = 1 THEN <<2, 3, 4>> ELSE <<>>],
                          [b \in 1..5 |->
                             CASE b = 1 -> MStmts(b, <<>>, "GT_SWITCH(switchVal)")
                               [] b = 5 -> MStmts(b, <<>>, "GT_RETURN(x)")
                               [] OTHER -> MStmts(b, body[b], "")],
                          [b \in 1..5 |-> IF newobj /\ b = 2 THEN {"BBF_HAS_NEWOBJ"} ELSE {}],
                          [b \in 1..5 |-> 1], FALSE)} :
        InitFrom(g)

\* the switch BB01 reaches the return blocks BB02, BB03 and BB04
InitMergeReturns ==
    \E body \in [2..4 -> {<<>>, <<"x = 5">>}], ret \in [2..4 -> {"GT_RETURN(x)", "GT_RETURN(y)"}],
       retBB \in {NoBlock, 4} :
      \E jmp \in {[b \in 1..4 |-> IF b = 1 THEN MJump("BBJ_SWITCH", NoBlock)
                                  ELSE MJump("BBJ_RETURN", NoBlock)]} :
      \E g \in {[SimpGraph(4, jmp, [b \in 1..4 |-> IF b = 1 THEN <<2, 3, 4>> ELSE <<>>],
                           [b \in 1..4 |->
                              IF b = 1 THEN MStmts(b, <<>>, "GT_SWITCH(switchVal)")
                              ELSE MStmts(b, body[b], ret[b])],
                           [b \in 1..4 |-> {}], [b \in 1..4 |-> 1], FALSE)
                   EXCEPT !.genReturnBB = retBB]} :
        InitFrom(g)

InitMerge ==
    /\ InitMergeDiamond \/ InitMergeEntry \/ InitMergeThree \/ InitMergeReturns
    /\ pc = "start"
    /\ loc = [before |-> <<>>]

\* the phase PHASE_HEAD_TAIL_MERGE; isEnabled is JitEnableHeadTailMerge
HeadTailMerge ==
    /\ pc = "start"
    /\ \E g0 \in {G} : \E isEnabled \in BOOLEAN :
          \E r \in {fgHeadTailMerge(g0, isEnabled)} :
             /\ SetG(r.g)
             /\ loc' = [before |-> g0, isEnabled |-> isEnabled, madeChanges |-> r.madeChanges]
    /\ pc' = "merged"

NextMerge == HeadTailMerge

SpecMerge == InitMerge /\ [][NextMerge]_vars

\* no assertion fires in the merges
MergeNoFatal == pc = "merged" => ~fatal


-----------------------------------------------------------------------------
(* Claims on tail merging *)

StmtIds(g, b) == {g.stmts[b][i].id : i \in 1..Len(g.stmts[b])}

\* the blocks of g that hold the statement id
HoldersOf(g, id) == {b \in Blocks(g) : id \in StmtIds(g, b)}

\* in g, the statement id of block b stands before every statement that b had in g0
HoistedInto(g0, g, b, id) ==
    \E i \in 1..Len(g.stmts[b]) :
       /\ g.stmts[b][i].id = id
       /\ \A k \in 1..Len(g.stmts[b]) : g.stmts[b][k].id \in StmtIds(g0, b) => i < k

\* p1 and p2 are the two predecessors of join, other than join, each reaches it
\* by its only successor edge in the EH region of join
TwoTailPreds(g, join, p1, p2) ==
    /\ p1 < p2 /\ PredSet(g, join) = {p1, p2} /\ join \notin {p1, p2}
    /\ \A p \in {p1, p2} : GetUniqueSucc(g, p) = join /\ sameEHRegion(g, join, p)

\* one of the statements s1 of p1 and s2 of p2 stands at the start of join, and
\* the other one is in no block
MergedIntoJoin(g0, join, s1, s2) ==
    \E keep \in {s1.id, s2.id} :
       /\ HoldersOf(G, keep) = {join} /\ HoistedInto(g0, G, join, keep)
       /\ \A drop \in {s1.id, s2.id} \ {keep} : HoldersOf(G, drop) = {}

\* C20 as stated: when a join block has exactly two predecessors, each reaching
\* it by its only successor edge in the same EH region and each ending with a
\* structurally equal statement, tail merging places one copy of that statement
\* at the start of the join block and removes it from both predecessors
C20_EqualLastStatementsMerged ==
    (pc = "merged" /\ loc.isEnabled) =>
      \A join \in Blocks(loc.before) : \A p1, p2 \in Blocks(loc.before) :
         With(loc.before, LAMBDA g0 :
           (/\ TwoTailPreds(g0, join, p1, p2)
            /\ g0.stmts[p1] # <<>> /\ g0.stmts[p2] # <<>>
            /\ Compare(g0.stmts[p1][Len(g0.stmts[p1])], g0.stmts[p2][Len(g0.stmts[p2])]))
           => MergedIntoJoin(g0, join, g0.stmts[p1][Len(g0.stmts[p1])],
                             g0.stmts[p2][Len(g0.stmts[p2])]))

\* C20: when a join block has exactly two incoming references (for the first
\* block the entry of the method counts as one more), from two predecessors that
\* each reach it by their only successor edge in the same EH region and whose
\* last statements other than GT_NOP are structurally equal, tail merging places
\* the statement of the lower numbered predecessor at the start of the join
\* block, ahead of what the join block held, and removes the statement from both
\* predecessors; when the join block has more incoming references than that, it
\* receives no statement of the two: one predecessor keeps its statement and the
\* other one loses it and jumps to the kept statement
C20_EqualLastNonNopStatementsMerged ==
    (pc = "merged" /\ loc.isEnabled) =>
      \A join \in Blocks(loc.before) : \A p1, p2 \in Blocks(loc.before) :
         With(loc.before, LAMBDA g0 :
           (/\ TwoTailPreds(g0, join, p1, p2)
            /\ LastNonNop(g0.stmts[p1]) > 0 /\ LastNonNop(g0.stmts[p2]) > 0
            /\ Compare(g0.stmts[p1][LastNonNop(g0.stmts[p1])], g0.stmts[p2][LastNonNop(g0.stmts[p2])]))
           => With(g0.stmts[p1][LastNonNop(g0.stmts[p1])], LAMBDA s1 :
              With(g0.stmts[p2][LastNonNop(g0.stmts[p2])], LAMBDA s2 :
              /\ loc.madeChanges
              /\ g0.refs[join] = 2 =>
                    /\ HoldersOf(G, s1.id) = {join} /\ HoistedInto(g0, G, join, s1.id)
                    /\ HoldersOf(G, s2.id) = {}
                    /\ \E i \in 1..Len(bbStmtList[join]) :
                          bbStmtList[join][i].id = s1.id /\ bbStmtList[join][i].tree = s1.tree
              /\ g0.refs[join] > 2 =>
                    /\ StmtIds(G, join) \cap {s1.id, s2.id} = {}
                    /\ \E keep \in {s1.id, s2.id} : \E v \in Blocks(G) \ {join} :
                          /\ HoldersOf(G, keep) = {v}
                          /\ \A drop \in {s1.id, s2.id} \ {keep} : HoldersOf(G, drop) = {}
                          /\ \A p \in {p1, p2} :
                                \/ keep \in StmtIds(G, p)
                                \/ bbJumpKind[p] = "BBJ_ALWAYS" /\ bbJumpDest[p] = v)))

\* two predecessors ended with x = 5, and the join block now starts with it
C20_Witness ==
    /\ pc = "merged" /\ loc.isEnabled /\ loc.madeChanges
    /\ \E join \in Blocks(loc.before) : \E p1, p2 \in Blocks(loc.before) :
          /\ TwoTailPreds(loc.before, join, p1, p2)
          /\ loc.before.refs[join] = 2
          /\ \A p \in {p1, p2} :
                /\ LastNonNop(loc.before.stmts[p]) > 1
                /\ loc.before.stmts[p][LastNonNop(loc.before.stmts[p])].tree = "x = 5"
                /\ loc.before.stmts[p][1].tree # loc.before.stmts[p1][1].tree \/ p = p1
          /\ Len(loc.before.stmts[join]) > 0
          /\ Len(bbStmtList[join]) = Len(loc.before.stmts[join]) + 1
          /\ bbStmtList[join][1].tree = "x = 5"
          /\ bbStmtList[join][1].id \in StmtIds(loc.before, p1)


-----------------------------------------------------------------------------
(* fgExpandRarelyRunBlocks *)

isRunRarely(g, b) == "BBF_RUN_RARELY" \in g.flags[b]

hasProfileWeight(g, b) == "BBF_PROF_WEIGHT" \in g.flags[b]

\* Compiler::bbIsHandlerBeg
bbIsHandlerBeg(g, b) == \E i \in 1..Len(g.eh) : b \in {g.eh[i].ebdHndBeg, g.eh[i].ebdFilter}

\* newRunRarely of fgExpandRarelyRunBlocks, the walk over the predecessors of
\* bPrev from the j-th on: the lexically earliest one found so far is bPrevPrev
RECURSIVE EarliestPred(_, _, _, _, _)
EarliestPred(g, bPrev, preds, j, bPrevPrev) ==
    IF j > Len(preds) THEN bPrevPrev
    ELSE With(preds[j], LAMBDA p :
         EarliestPred(g, bPrev, preds, j + 1,
                      IF bPrevPrev = NoBlock THEN p
                      ELSE IF /\ IndexOf(g, p) <= IndexOf(g, bPrevPrev)
                              /\ ~(IndexOf(g, p) <= IndexOf(g, bPrev) /\ IndexOf(g, bPrev) < IndexOf(g, bPrevPrev))
                      THEN p
                      ELSE bPrevPrev))

\* newRunRarely of fgExpandRarelyRunBlocks (with FEATURE_EH_FUNCLETS): the block
\* to go back to, or NoBlock; fatal if a noway_assert fires
newRunRarely(g, block, bPrev) ==
    With("BBF_KEEP_BBJ_ALWAYS" \in g.flags[bPrev], LAMBDA isTail :
    IF isTail /\ (Prev(g, bPrev) = NoBlock \/ ~isBBCallAlwaysPair(g, Prev(g, bPrev)))
    THEN [bContinue |-> NoBlock, fatal |-> TRUE]
    ELSE With(EarliestPred(g, bPrev, PredBlocks(g, bPrev), 1, IF isTail THEN Prev(g, bPrev) ELSE NoBlock),
              LAMBDA bPrevPrev :
         [bContinue |-> IF bPrevPrev # NoBlock /\ IndexOf(g, bPrevPrev) <= IndexOf(g, bPrev)
                        THEN bPrevPrev ELSE NoBlock,
          fatal |-> FALSE]))

\* the first loop without the case of the conditional jump
RareReason_NoCond(g, bPrev, block) ==
    CASE g.kind[bPrev] = "BBJ_ALWAYS" -> isRunRarely(g, g.dest[bPrev])
      [] g.kind[bPrev] = "BBJ_CALLFINALLY" -> isBBCallAlwaysPair(g, bPrev) /\ isRunRarely(g, block)
      [] OTHER -> FALSE

\* fgExpandRarelyRunBlocks, the first loop: "a block that falls into or jumps to
\* a rarely run block must itself be rarely run"
RareReason(g, bPrev, block) ==
    CASE g.kind[bPrev] = "BBJ_ALWAYS" -> isRunRarely(g, g.dest[bPrev])
      [] g.kind[bPrev] = "BBJ_CALLFINALLY" -> isBBCallAlwaysPair(g, bPrev) /\ isRunRarely(g, block)
      [] g.kind[bPrev] = "BBJ_COND" -> isRunRarely(g, block) /\ isRunRarely(g, g.dest[bPrev])
      [] OTHER -> FALSE

\* an iteration of the first loop that goes back to bContinue without marking bPrev
ExpandIter_ResetOnly(st, bPrev) ==
    With(st, LAMBDA s : With(s.g, LAMBDA g : With(Next(g, bPrev), LAMBDA block :
    IF block = NoBlock \/ g.fatal
    THEN [s |-> s, bPrev |-> bPrev, done |-> TRUE, marked |-> FALSE, reset |-> FALSE]
    ELSE IF isRunRarely(g, bPrev) \/ hasProfileWeight(g, bPrev) \/ ~RareReason(g, bPrev, block)
    THEN [s |-> s, bPrev |-> block, done |-> FALSE, marked |-> FALSE, reset |-> FALSE]
    ELSE With(newRunRarely(g, block, bPrev), LAMBDA r :
         [s |-> [g |-> [g EXCEPT !.fatal = r.fatal], result |-> TRUE],
          bPrev |-> IF r.bContinue # NoBlock THEN r.bContinue ELSE block,
          done |-> FALSE, marked |-> FALSE, reset |-> r.bContinue # NoBlock]))))

\* fgExpandRarelyRunBlocks, one iteration of the first loop at bPrev: the graph
\* and result, the next bPrev, whether the loop has ended, whether bPrev was
\* marked and whether block was reset to the backtrack point
ExpandIter(st, bPrev) ==
    With(st, LAMBDA s : With(s.g, LAMBDA g : With(Next(g, bPrev), LAMBDA block :
    IF block = NoBlock \/ g.fatal
    THEN [s |-> s, bPrev |-> bPrev, done |-> TRUE, marked |-> FALSE, reset |-> FALSE]
    ELSE IF isRunRarely(g, bPrev) \/ hasProfileWeight(g, bPrev) \/ ~RareReason(g, bPrev, block)
    THEN [s |-> s, bPrev |-> block, done |-> FALSE, marked |-> FALSE, reset |-> FALSE]
    ELSE With(bbSetRunRarely(g, bPrev), LAMBDA g1 :
         With(newRunRarely(g1, block, bPrev), LAMBDA r :
         [s |-> [g |-> [g1 EXCEPT !.fatal = r.fatal], result |-> TRUE],
          bPrev |-> IF r.bContinue # NoBlock THEN r.bContinue ELSE block,
          done |-> FALSE, marked |-> TRUE, reset |-> r.bContinue # NoBlock])))))

RECURSIVE ExpandLoop(_, _)
ExpandLoop(st, bPrev) ==
    With(ExpandIter(st, bPrev), LAMBDA it :
         IF it.done THEN it.s ELSE ExpandLoop(it.s, it.bPrev))

\* the second loop marking every block whose predecessors are rarely run,
\* handler entries included
MarkAllPredsRare_AlsoHandlers(gg, block) ==
    With(gg, LAMBDA g :
    IF /\ ~isRunRarely(g, block)
       /\ \A predBlock \in PredSet(g, block) : isRunRarely(g, predBlock)
    THEN [g |-> bbSetRunRarely(g, block), marked |-> TRUE]
    ELSE [g |-> g, marked |-> FALSE])

\* fgExpandRarelyRunBlocks, the second loop, "when all predecessors to the block
\* are rarely run": the graph and whether block was marked
MarkAllPredsRare(gg, block) ==
    With(gg, LAMBDA g :
    IF /\ ~isRunRarely(g, block)
       /\ \A predBlock \in PredSet(g, block) : isRunRarely(g, predBlock)
       /\ ~bbIsHandlerBeg(g, block)
    THEN [g |-> IF isBBCallAlwaysPair(g, block)
                THEN IF Next(g, block) = NoBlock THEN [g EXCEPT !.fatal = TRUE]
                     ELSE bbSetRunRarely(bbSetRunRarely(g, block), Next(g, block))
                ELSE bbSetRunRarely(g, block),
          marked |-> TRUE]
    ELSE [g |-> g, marked |-> FALSE])

\* fgExpandRarelyRunBlocks, the second loop: the weights of a
\* BBJ_CALLFINALLY/BBJ_ALWAYS pair are made equal
PairWeights(gg, bPrev, block) ==
    With(gg, LAMBDA g :
    IF ~(/\ isBBCallAlwaysPair(g, bPrev) /\ g.weight[bPrev] # g.weight[block]
         /\ ~hasProfileWeight(g, bPrev))
    THEN g
    ELSE IF isRunRarely(g, block)
    THEN [g EXCEPT !.weight[bPrev] = g.weight[block], !.flags[bPrev] = @ \cup {"BBF_RUN_RARELY"}]
    ELSE IF isRunRarely(g, bPrev)
    THEN [g EXCEPT !.weight[block] = g.weight[bPrev], !.flags[block] = @ \cup {"BBF_RUN_RARELY"}]
    ELSE [g EXCEPT !.weight[bPrev] = g.weight[block]])

RECURSIVE ProveLoop(_, _)
ProveLoop(st, bPrev) ==
    With(st, LAMBDA s : With(Next(s.g, bPrev), LAMBDA block :
    IF block = NoBlock \/ s.g.fatal THEN s
    ELSE With(MarkAllPredsRare(s.g, block), LAMBDA m :
         IF fgCanCompactBlocks(m.g, bPrev, block)
         THEN ProveLoop([g |-> fgCompactBlocks(m.g, bPrev, block), result |-> s.result \/ m.marked],
                        bPrev)
         ELSE ProveLoop([g |-> PairWeights(m.g, bPrev, block), result |-> s.result \/ m.marked],
                        block))))

\* Compiler::fgExpandRarelyRunBlocks: the graph and the value returned
fgExpandRarelyRunBlocks(gg) ==
    With(ExpandLoop([g |-> gg, result |-> FALSE], fgFirstBB(gg)), LAMBDA s :
    ProveLoop(s, fgFirstBB(s.g)))

-----------------------------------------------------------------------------
(* The flow graphs fgExpandRarelyRunBlocks is run on *)

\* the flags of a block of weight w, with a weight from a profile if prof
WeightFlags(w, prof) ==
    (IF w = 0 THEN {"BBF_RUN_RARELY"} ELSE {}) \cup (IF prof THEN {"BBF_PROF_WEIGHT"} ELSE {})

\* four blocks without EH regions; at most one has a weight from a profile
InitRarePlain ==
    \E j1 \in [kind : {"BBJ_COND"}, dest : {3, 4}] \cup [kind : {"BBJ_ALWAYS"}, dest : 2..4],
       j2 \in [kind : {"BBJ_COND"}, dest : {1, 4}] \cup [kind : {"BBJ_ALWAYS"}, dest : {3, 4}]
                \cup [kind : {"BBJ_RETURN", "BBJ_THROW"}, dest : {NoBlock}],
       j3 \in [kind : {"BBJ_COND"}, dest : {1}] \cup [kind : {"BBJ_ALWAYS"}, dest : {2, 4}]
                \cup [kind : {"BBJ_RETURN", "BBJ_THROW"}, dest : {NoBlock}],
       j4 \in [kind : {"BBJ_ALWAYS"}, dest : {1}] \cup [kind : {"BBJ_RETURN", "BBJ_THROW"}, dest : {NoBlock}] :
      \E weight \in [1..4 -> {0, 1}], prof \in {{}} \cup {{b} : b \in 1..4} :
        \E jmp \in {<<j1, j2, j3, j4>>} :
        \E g \in {MkGraph(4, jmp, [b \in 1..4 |-> <<>>], [b \in 1..4 |-> <<>>],
                          [b \in 1..4 |-> SimpStmts(b, jmp[b].kind, TRUE, FALSE)],
                          [b \in 1..4 |-> WeightFlags(weight[b], b \in prof)],
                          weight, [b \in 1..4 |-> 0], [b \in 1..4 |-> 0], <<>>,
                          NoBlock, NoBlock, {}, FALSE)} :
          InitFrom(g)

\* a try region BB01 left by a call to the finally BB05: the pair BB02, BB03
InitRarePair ==
    \E weight \in [1..5 -> {0, 1, 2}], prof \in {{}, {2}, {3}}, j4 \in {"BBJ_RETURN", "BBJ_THROW"} :
      \E jmp \in {<<MJump("BBJ_ALWAYS", 2), MJump("BBJ_CALLFINALLY", 5), MJump("BBJ_ALWAYS", 4),
                    MJump(j4, NoBlock), MJump("BBJ_EHFINALLYRET", NoBlock)>>} :
      \E g \in {MkGraph(5, jmp, [b \in 1..5 |-> <<>>], [b \in 1..5 |-> IF b = 5 THEN <<3>> ELSE <<>>],
                        [b \in 1..5 |-> SimpStmts(b, jmp[b].kind, b # 3, FALSE)],
                        [b \in 1..5 |-> WeightFlags(weight[b], b \in prof)
                                        \cup (IF b \in {1, 5} THEN {"BBF_DONT_REMOVE"} ELSE {})
                                        \cup (IF b = 3 THEN {"BBF_KEEP_BBJ_ALWAYS"} ELSE {})],
                        weight, [b \in 1..5 |-> IF b = 1 THEN 1 ELSE 0],
                        [b \in 1..5 |-> IF b = 5 THEN 1 ELSE 0],
                        <<[ebdTryBeg |-> 1, ebdHndBeg |-> 5, ebdFilter |-> NoBlock,
                           ebdEnclosingTryIndex |-> 0]>>,
                        NoBlock, NoBlock, {}, FALSE)} :
        InitFrom(g)

InitRare ==
    /\ InitRarePlain \/ InitRarePair
    /\ pc = "start"
    /\ loc = [before |-> <<>>]

ExpandRarelyRunBlocks ==
    /\ pc = "start"
    /\ \E g0 \in {G} : \E r \in {fgExpandRarelyRunBlocks(g0)} :
          /\ SetG(r.g)
          /\ loc' = [before |-> g0, result |-> r.result]
    /\ pc' = "expanded"

NextRare == ExpandRarelyRunBlocks

SpecRare == InitRare /\ [][NextRare]_vars

\* no assertion fires when the rarely run blocks are expanded
RareNoFatal == pc = "expanded" => ~fatal

-----------------------------------------------------------------------------
(* Claims on the rarely run blocks *)

\* block b ends with a conditional jump whose two successors are rarely run
BothSidesRare(g, b) ==
    /\ g.kind[b] = "BBJ_COND" /\ Next(g, b) # NoBlock
    /\ isRunRarely(g, Next(g, b)) /\ isRunRarely(g, g.dest[b])

-----------------------------------------------------------------------------
(* fgReorderBlocks, for a method without EH regions and without profile data *)

\* the largest number of pairs (bPrev, block) fgReorderBlocks goes through
MaxLayoutSteps == 12

JumpsToNext(g, b) == g.dest[b] = Next(g, b)

\* Compiler::fgIsForwardBranch: the target of bJump comes after bSrc
fgIsForwardBranch(g, bJump, bSrc) ==
    g.dest[bJump] \in Blocks(g) /\ IndexOf(g, g.dest[bJump]) > IndexOf(g, bSrc)

\* gtCloneStmt for the copies fgOptimizeBranch appends to bJump
CloneStmt(stmt, bJump, i) == [stmt EXCEPT !.id = 1000 + 100 * bJump + i]

\* Compiler::fgOptimizeBranch: the graph and the value returned. env gives the
\* size cost gtSetStmtInfo finds for a statement (costSz), JIT_FLAG_PREJIT
\* (prejit) and whether gtCloneStmt can clone the statements (canClone);
\* fgIsUsingProfileWeights is false, BB_UNITY_WEIGHT is 100 and
\* BB_LOOP_WEIGHT_SCALE is 8
fgOptimizeBranch(gg, bJump, env) ==
    With(gg, LAMBDA g :
    With(g.dest[bJump], LAMBDA bDest :
    IF \/ g.kind[bJump] # "BBJ_ALWAYS" \/ JumpsToNext(g, bJump)
       \/ "BBF_KEEP_BBJ_ALWAYS" \in g.flags[bJump] \/ fgBBisScratch(g, bJump)
       \/ g.kind[bDest] # "BBJ_COND" \/ Next(g, bJump) # g.dest[bDest]
       \/ g.try[bJump] # g.try[bDest]
       \/ (g.try[Next(g, bDest)] # 0 /\ g.try[bJump] # g.try[Next(g, bDest)])
    THEN [g |-> g, result |-> FALSE]
    ELSE IF g.lir THEN [g |-> [g EXCEPT !.fatal = TRUE], result |-> FALSE]
    ELSE With(Next(g, bJump), LAMBDA bJumpNext :
         With(6 + (IF isRunRarely(g, bDest) # isRunRarely(g, bJump) THEN 6 ELSE 0)
                + (IF isRunRarely(g, bDest) # isRunRarely(g, bJumpNext) THEN 6 ELSE 0),
              LAMBDA maxDupCostSz :
         With(SelectSeq(g.stmts[bDest], LAMBDA s : ~s.phi), LAMBDA nonPhi :
         IF \/ Len(g.stmts[bDest]) * env.costSz
                 > (IF env.prejit /\ isRunRarely(g, bJump) THEN 2 * maxDupCostSz ELSE maxDupCostSz)
            \/ ~env.canClone
         THEN [g |-> g, result |-> FALSE]
         ELSE IF nonPhi = <<>> THEN [g |-> [g EXCEPT !.fatal = TRUE], result |-> FALSE]
         ELSE IF ~nonPhi[Len(nonPhi)].test THEN [g |-> [g EXCEPT !.fatal = TRUE], result |-> FALSE]
         ELSE With([i \in 1..Len(nonPhi) |->
                      IF i = Len(nonPhi) THEN [CloneStmt(nonPhi[i], bJump, i) EXCEPT !.rev = ~@]
                      ELSE CloneStmt(nonPhi[i], bJump, i)], LAMBDA newStmtList :
              With([g EXCEPT !.stmts[bJump] = @ \o newStmtList,
                             !.flags[bJump] = @ \cup (g.flags[bDest] \cap BBF_COPY_PROPAGATE),
                             !.kind[bJump] = "BBJ_COND", !.dest[bJump] = Next(g, bDest)], LAMBDA g1 :
              With(fgAddRefPred(fgRemoveRefPred(fgAddRefPred(g1, bJumpNext, bJump), bDest, bJump),
                                Next(g, bDest), bJump), LAMBDA g2 :
              With(g.weight[bJump], LAMBDA weightJump : With(g.weight[bDest], LAMBDA weightDest :
              With(IF weightDest >= (8 * 100) \div 2 THEN (weightDest * 2) \div (8 * 100)
                   ELSE IF weightDest > weightJump THEN weightDest - weightJump ELSE 0,
                   LAMBDA newWeightDest :
              [g |-> IF weightJump > 0 /\ newWeightDest > 0
                     THEN [g2 EXCEPT !.weight[bDest] = newWeightDest] ELSE g2,
               result |-> TRUE])))))))))))

\* Compiler::fgConnectFallThrough: if bSrc falls through to a block other than
\* bDst, a new block after bSrc jumps to bDst
fgConnectFallThrough(gg, bSrc, bDst) ==
    With(gg, LAMBDA g :
    IF bDst = NoBlock THEN g
    ELSE IF bbFallsThrough(g, bSrc) /\ Next(g, bSrc) # bDst
    THEN With(fgNewBBafter(g, "BBJ_ALWAYS", bSrc, bDst), LAMBDA g1 :
         With(Next(g1, bSrc), LAMBDA jmpBlk :
         With(IF g.weight[bSrc] < g.weight[bDst] THEN g.weight[bSrc] ELSE g.weight[bDst], LAMBDA w :
         fgReplacePred(
           fgAddRefPred([g1 EXCEPT !.weight[jmpBlk] = w,
                                   !.flags[jmpBlk] = IF w = 0 THEN @ \cup {"BBF_RUN_RARELY"}
                                                     ELSE @ \ {"BBF_RUN_RARELY"}],
                        jmpBlk, bSrc),
           bDst, bSrc, jmpBlk))))
    ELSE IF /\ g.kind[bSrc] = "BBJ_ALWAYS" /\ "BBF_KEEP_BBJ_ALWAYS" \notin g.flags[bSrc]
            /\ JumpsToNext(g, bSrc)
    THEN [g EXCEPT !.flags[bSrc] = @ \cup {"BBF_NONE_QUIRK"}]
    ELSE g)

\* Option #1 without the step over a call-finally pair.
RECURSIVE RangeToMove_SplitsPair(_, _, _, _, _, _, _)
RangeToMove_SplitsPair(g, bStart, bEnd0, bNext0, bDest, isRare, profHotWeight) ==
    With(bEnd0, LAMBDA bEnd : With(bNext0, LAMBDA bNext :
    IF bNext = NoBlock THEN [bEnd |-> bEnd, bNext |-> bNext, connected |-> bNext = bDest]
    ELSE IF bNext = bDest THEN [bEnd |-> bEnd, bNext |-> bNext, connected |-> TRUE]
    ELSE IF \/ g.try[bStart] # g.try[bNext] \/ "BBF_DONT_REMOVE" \in g.flags[bNext]
            \/ (isRare /\ ~isRunRarely(g, bNext))
            \/ (~isRare /\ g.weight[bNext] >= profHotWeight)
    THEN [bEnd |-> bEnd, bNext |-> bNext, connected |-> FALSE]
    ELSE RangeToMove_SplitsPair(g, bStart, bNext, Next(g, bNext), bDest, isRare, profHotWeight)))

\* fgReorderBlocks, option #1: the last block bEnd of the range that starts at
\* bStart, the block bNext after it, and whether the range ends before bDest
RECURSIVE RangeToMove(_, _, _, _, _, _, _)
RangeToMove(g, bStart, bEnd0, bNext0, bDest, isRare, profHotWeight) ==
    With(IF isBBCallAlwaysPair(g, bEnd0) THEN bNext0 ELSE bEnd0, LAMBDA bEnd :
    With(IF isBBCallAlwaysPair(g, bEnd0) THEN Next(g, bNext0) ELSE bNext0, LAMBDA bNext :
    IF bNext = NoBlock THEN [bEnd |-> bEnd, bNext |-> bNext, connected |-> bNext = bDest]
    ELSE IF bNext = bDest THEN [bEnd |-> bEnd, bNext |-> bNext, connected |-> TRUE]
    ELSE IF \/ g.try[bStart] # g.try[bNext] \/ "BBF_DONT_REMOVE" \in g.flags[bNext]
            \/ (isRare /\ ~isRunRarely(g, bNext))
            \/ (~isRare /\ g.weight[bNext] >= profHotWeight)
    THEN [bEnd |-> bEnd, bNext |-> bNext, connected |-> FALSE]
    ELSE RangeToMove(g, bStart, bNext, Next(g, bNext), bDest, isRare, profHotWeight)))

\* Option #2 without the step over a call-finally pair.
RECURSIVE RangeToHoist_SplitsPair(_, _, _, _, _, _)
RangeToHoist_SplitsPair(g, bStart2, bEnd0, bNext0, isRare, profHotWeight) ==
    With(bEnd0, LAMBDA bEnd2 : With(bNext0, LAMBDA bNext :
    IF bNext = NoBlock THEN [bEnd |-> bEnd2, bNext |-> bNext]
    ELSE IF \/ (~(g.kind[bEnd2] = "BBJ_ALWAYS" /\ JumpsToNext(g, bEnd2)) /\ ~bbFallsThrough(g, bEnd2))
            \/ g.try[bStart2] # g.try[bNext] \/ "BBF_DONT_REMOVE" \in g.flags[bNext]
            \/ (isRare /\ isRunRarely(g, bNext))
            \/ (~isRare /\ g.weight[bNext] <= profHotWeight)
    THEN [bEnd |-> bEnd2, bNext |-> bNext]
    ELSE RangeToHoist_SplitsPair(g, bStart2, bNext, Next(g, bNext), isRare, profHotWeight)))

\* fgReorderBlocks, option #2: the last block bEnd2 of the range that starts at
\* bStart2 = bDest, and the block bNext after it
RECURSIVE RangeToHoist(_, _, _, _, _, _)
RangeToHoist(g, bStart2, bEnd0, bNext0, isRare, profHotWeight) ==
    With(IF isBBCallAlwaysPair(g, bEnd0) THEN bNext0 ELSE bEnd0, LAMBDA bEnd2 :
    With(IF isBBCallAlwaysPair(g, bEnd0) THEN Next(g, bNext0) ELSE bNext0, LAMBDA bNext :
    IF bNext = NoBlock THEN [bEnd |-> bEnd2, bNext |-> bNext]
    ELSE IF \/ (~(g.kind[bEnd2] = "BBJ_ALWAYS" /\ JumpsToNext(g, bEnd2)) /\ ~bbFallsThrough(g, bEnd2))
            \/ g.try[bStart2] # g.try[bNext] \/ "BBF_DONT_REMOVE" \in g.flags[bNext]
            \/ (isRare /\ isRunRarely(g, bNext))
            \/ (~isRare /\ g.weight[bNext] <= profHotWeight)
    THEN [bEnd |-> bEnd2, bNext |-> bNext]
    ELSE RangeToHoist(g, bStart2, bNext, Next(g, bNext), isRare, profHotWeight)))

\* fgReorderBlocks from "Temporarily unlink [bStart..bEnd]" on: the range
\* bStart..bEnd that follows bStartPrev goes after insertAfterBlk (NoBlock:
\* the place is still to be found: fgFindInsertPoint gives the block env.pick of
\* the list, or none; it never gives the BBJ_CALLFINALLY of a pair, a block that
\* falls through). The state, and the block to go on with
RelocateRange(st, env, bPrev, block, bDest, isRare, bStart, bEnd, bStartPrev, bNext, bPrev2, insertAfter0) ==
    With(st, LAMBDA s : With(s.g, LAMBDA g :
    With(SubSeq(g.list, IndexOf(g, bStart), IndexOf(g, bEnd)), LAMBDA range :
    With([g EXCEPT !.list = SubSeq(@, 1, IndexOf(g, bStart) - 1) \o SubSeq(@, IndexOf(g, bEnd) + 1, Len(@))],
         LAMBDA u :
    With(IF /\ g.kind[bStartPrev] = "BBJ_ALWAYS"
            /\ JumpsToNext(g, bStartPrev) # JumpsToNext(u, bStartPrev)
         THEN {"BBF_NONE_QUIRK"} ELSE {}, LAMBDA quirk :
    With(IF insertAfter0 # NoBlock THEN insertAfter0
         ELSE IF g.try[bStart] = 0 /\ isRare THEN u.list[Len(u.list)]
         ELSE IF env.pick <= Len(u.list) /\ ~isBBCallAlwaysPair(u, u.list[env.pick])
         THEN u.list[env.pick] ELSE NoBlock, LAMBDA insertAfterBlk :
    IF insertAfter0 = NoBlock /\ ~(g.try[bStart] = 0 /\ isRare) /\ insertAfterBlk \in {bPrev, NoBlock}
    THEN [s |-> [s EXCEPT !.g.flags[bStartPrev] = @ \ quirk], next |-> block]
    ELSE IF insertAfterBlk \in {NoBlock, bPrev} /\ insertAfter0 = NoBlock
    THEN [s |-> [s EXCEPT !.g.fatal = TRUE], next |-> NoBlock]
    ELSE IF bStartPrev = insertAfterBlk THEN [s |-> [s EXCEPT !.g.fatal = TRUE], next |-> NoBlock]
    ELSE With([u EXCEPT !.flags[bStartPrev] = @ \ quirk], LAMBDA u1 :
         With(IF g.kind[bPrev] # "BBJ_COND" THEN u1
              ELSE [ReverseJumpStmt(u1, bPrev) EXCEPT
                       !.dest[bPrev] = IF bPrev2 = NoBlock THEN bStart ELSE block], LAMBDA u2 :
         With([u2 EXCEPT !.list = SubSeq(@, 1, IndexOf(u2, insertAfterBlk)) \o range
                                    \o SubSeq(@, IndexOf(u2, insertAfterBlk) + 1, Len(@))], LAMBDA m :
         With(fgConnectFallThrough(m, bPrev, IF bDest # NoBlock THEN bDest ELSE block), LAMBDA m1 :
         With(Next(m1, bEnd), LAMBDA bSkip :
         With(fgConnectFallThrough(m1, bEnd, bNext), LAMBDA m2 :
         With(IF bPrev2 = NoBlock THEN fgConnectFallThrough(m2, insertAfterBlk, bSkip)
              ELSE fgConnectFallThrough(m2, bPrev2, bStart), LAMBDA m3 :
         [s |-> [s EXCEPT !.g = m3, !.movedBlocks = @ \/ env.debug, !.relocated = TRUE,
                          !.ranges = @ \cup {[bStart |-> bStart, bEnd |-> bEnd,
                                               bStartPrev |-> bStartPrev]}],
          next |-> Next(m3, bPrev)])))))))))))))

\* fgReorderBlocks, one pair (bPrev, block) of the loop over the blocks: the
\* state, and the block that is bPrev in the next pair
ReorderPair(st, env, bPrev, block) ==
    With(st, LAMBDA s : With(s.g, LAMBDA g :
    IF "BBF_KEEP_BBJ_ALWAYS" \in g.flags[block] \/ g.hnd[block] # 0 THEN [s |-> s, next |-> block]
    ELSE
    With(isRunRarely(g, block), LAMBDA isRare :
    With(IF g.kind[bPrev] \in {"BBJ_COND", "BBJ_ALWAYS"} THEN g.dest[bPrev] ELSE NoBlock, LAMBDA bDest :
    With(bDest # NoBlock /\ ~fgIsForwardBranch(g, bPrev, bPrev), LAMBDA backwardBranch :
    With(/\ env.useProfile /\ ~isRunRarely(g, bPrev)
         /\ IF ~isRare
            THEN Next(g, block) = bDest /\ g.kind[block] = "BBJ_RETURN" /\ g.kind[bPrev] = "BBJ_ALWAYS"
            ELSE ~(bDest # NoBlock /\ isRunRarely(g, bDest)), LAMBDA reorderBlock :
    With(IF isRare THEN 0 ELSE -1, LAMBDA profHotWeight :
    IF ~reorderBlock
    THEN With(fgOptimizeBranch(g, bPrev, env), LAMBDA o :
         [s |-> [s EXCEPT !.g = IF o.result /\ o.g.kind[bPrev] # "BBJ_COND"
                                THEN [o.g EXCEPT !.fatal = TRUE] ELSE o.g,
                          !.optimizedBranches = @ \/ o.result],
          next |-> block])
    ELSE
    With(IF (backwardBranch /\ ~isRare) \/ "BBF_DONT_REMOVE" \in g.flags[block]
         THEN [bEnd |-> NoBlock, bNext |-> Next(g, block), connected |-> FALSE]
         ELSE RangeToMove(g, block, block, Next(g, block), bDest, isRare, profHotWeight), LAMBDA r1 :
    With(IF /\ ~r1.connected /\ bDest # NoBlock /\ "BBF_DONT_REMOVE" \notin g.flags[bDest]
            /\ IndexOf(g, bDest) > IndexOf(g, block)
            /\ fgEhAllowsMoveBlock(g, bPrev, bDest)
         THEN Prev(g, bDest) ELSE NoBlock, LAMBDA bPrev2 :
    IF bPrev2 # NoBlock
    THEN With(RangeToHoist(g, bDest, bDest, Next(g, bDest), isRare, profHotWeight), LAMBDA r2 :
         IF isBBCallAlwaysPair(g, r2.bEnd) THEN [s |-> [s EXCEPT !.g.fatal = TRUE], next |-> NoBlock]
         ELSE RelocateRange(s, env, bPrev, block, bDest, isRare, bDest, r2.bEnd, bPrev2, r2.bNext,
                            bPrev2, bPrev))
    ELSE IF r1.bEnd = NoBlock \/ r1.bEnd = g.list[Len(g.list)] THEN [s |-> s, next |-> block]
    ELSE IF isBBCallAlwaysPair(g, r1.bEnd) THEN [s |-> [s EXCEPT !.g.fatal = TRUE], next |-> NoBlock]
    ELSE RelocateRange(s, env, bPrev, block, bDest, isRare, block, r1.bEnd, bPrev, r1.bNext,
                       NoBlock, NoBlock))))))))))

\* fgReorderBlocks, the loop over the blocks from the pair that starts with bPrev
RECURSIVE ReorderLoop(_, _, _, _)
ReorderLoop(st, env, bPrev, fuel) ==
    IF bPrev = NoBlock \/ st.g.fatal THEN st
    ELSE With(Next(st.g, bPrev), LAMBDA block :
         IF block = NoBlock THEN st
         ELSE IF fuel = 0 THEN [st EXCEPT !.diverged = TRUE]
         ELSE With(ReorderPair(st, env, bPrev, block), LAMBDA p :
              ReorderLoop(p.s, env, p.next, fuel - 1)))

\* Compiler::fgReorderBlocks(useProfile): the graph, the value returned, and
\* what was done: ranges holds, for every range [bStart..bEnd] that was moved, its
\* ends and the block bStartPrev it followed. env.debug tells a DEBUG build from a
\* release build
fgReorderBlocks(gg, env) ==
    IF Len(gg.list) = 1
    THEN [g |-> gg, result |-> FALSE, relocated |-> FALSE, newRarelyRun |-> FALSE,
          optimizedBranches |-> FALSE, diverged |-> FALSE, ranges |-> {}]
    ELSE With(fgExpandRarelyRunBlocks(gg), LAMBDA e :
         With(ReorderLoop([g |-> e.g, movedBlocks |-> FALSE, optimizedBranches |-> FALSE,
                           relocated |-> FALSE, diverged |-> FALSE, ranges |-> {}],
                          env, fgFirstBB(e.g), MaxLayoutSteps), LAMBDA s :
         [g |-> s.g, result |-> s.movedBlocks \/ e.result \/ s.optimizedBranches,
          relocated |-> s.relocated, newRarelyRun |-> e.result,
          optimizedBranches |-> s.optimizedBranches, diverged |-> s.diverged,
          ranges |-> s.ranges]))


-----------------------------------------------------------------------------
(* The flow graphs fgReorderBlocks is run on *)

\* four blocks, each reachable from the first, with weights 0 (rarely run) or
\* BB_UNITY_WEIGHT
InitLayout ==
    /\ \E j1 \in [kind : {"BBJ_COND"}, dest : {3}] \cup [kind : {"BBJ_ALWAYS"}, dest : {2, 3}],
          j2 \in [kind : {"BBJ_COND"}, dest : {4}] \cup [kind : {"BBJ_ALWAYS"}, dest : {3, 4}]
                   \cup [kind : {"BBJ_RETURN", "BBJ_THROW"}, dest : {NoBlock}],
          j3 \in [kind : {"BBJ_COND"}, dest : {1, 2}] \cup [kind : {"BBJ_ALWAYS"}, dest : {4}]
                   \cup [kind : {"BBJ_RETURN", "BBJ_THROW"}, dest : {NoBlock}],
          j4 \in [kind : {"BBJ_ALWAYS"}, dest : {1}] \cup [kind : {"BBJ_RETURN", "BBJ_THROW"}, dest : {NoBlock}] :
         \E weight \in [1..4 -> {0, 100}] :
           \E jmp \in {<<j1, j2, j3, j4>>} :
           \E g \in {MkGraph(4, jmp, [b \in 1..4 |-> <<>>], [b \in 1..4 |-> <<>>],
                             [b \in 1..4 |-> SimpStmts(b, jmp[b].kind, TRUE, FALSE)],
                             [b \in 1..4 |-> WeightFlags(weight[b], FALSE)],
                             weight, [b \in 1..4 |-> 0], [b \in 1..4 |-> 0], <<>>,
                             NoBlock, NoBlock, {}, FALSE)} :
             /\ ReachFrom(g, {1}, {}) = Blocks(g)
             /\ InitFrom(g)
    /\ pc = "start"
    /\ loc = [before |-> <<>>]

\* the builds and the settings fgReorderBlocks runs under
LayoutEnvs ==
    {[useProfile |-> u, debug |-> d, costSz |-> c.costSz, prejit |-> c.prejit, canClone |-> TRUE,
      pick |-> c.pick] :
       u \in BOOLEAN, d \in BOOLEAN,
       c \in {[costSz |-> 3, prejit |-> FALSE, pick |-> 1], [costSz |-> 10, prejit |-> TRUE, pick |-> 3]}}
    \cup {[useProfile |-> FALSE, debug |-> FALSE, costSz |-> 3, prejit |-> FALSE, canClone |-> FALSE,
           pick |-> 2]}

\* a call of fgReorderBlocks(useProfile), as the phases PHASE_OPTIMIZE_FLOW and
\* PHASE_OPTIMIZE_LAYOUT make it
ReorderBlocks ==
    /\ pc = "start"
    /\ \E g0 \in {G} : \E env \in LayoutEnvs :
          \E r \in {fgReorderBlocks(g0, env)} :
             /\ SetG(r.g)
             /\ loc' = [before |-> g0, env |-> env, result |-> r.result, relocated |-> r.relocated,
                        newRarelyRun |-> r.newRarelyRun, optimizedBranches |-> r.optimizedBranches,
                        diverged |-> r.diverged, ranges |-> r.ranges]
    /\ pc' = "reordered"

NextLayout == ReorderBlocks

SpecLayout == InitLayout /\ [][NextLayout]_vars

\* no assertion fires, and the loop over the blocks comes to its end
LayoutNoFatal == pc = "reordered" => (~fatal /\ ~loc.diverged)

-----------------------------------------------------------------------------
(* Claims on the value fgReorderBlocks returns *)

\* what the later phases see of the flow graph: the order of the blocks, their
\* jumps, their statements and which of them are rarely run
FlowShape(g) ==
    [list |-> g.list,
     jumps |-> [b \in Blocks(g) |-> <<g.kind[b], g.dest[b]>>],
     stmts |-> [b \in Blocks(g) |-> g.stmts[b]],
     rare |-> {b \in Blocks(g) : isRunRarely(g, b)}]

\* C15: fgReorderBlocks returns true whenever it relocated a range of blocks,
\* reversed a branch, compacted blocks or newly marked a block rarely run, and
\* returns false only if it left the flow graph unchanged, in every build
C15_ChangeIsReported ==
    pc = "reordered" =>
      /\ (\/ loc.relocated
          \/ Blocks(G) # Blocks(loc.before)
          \/ \E b \in Blocks(G) \cap Blocks(loc.before) :
                \/ isRunRarely(G, b) /\ ~isRunRarely(loc.before, b)
                \/ \E i \in 1..Len(bbStmtList[b]) : \E k \in 1..Len(loc.before.stmts[b]) :
                      /\ bbStmtList[b][i].id = loc.before.stmts[b][k].id
                      /\ bbStmtList[b][i].rev # loc.before.stmts[b][k].rev)
         => loc.result
      /\ ~loc.result => FlowShape(G) = FlowShape(loc.before)


-----------------------------------------------------------------------------
(* Claims on the dominators of a diamond *)

\* the flow graph is the diamond entry -> a, entry -> b, a -> c, b -> c and has
\* no other block and no other edge
Diamond(g, a, b, c) ==
    /\ Len(g.list) = 4 /\ Cardinality({fgFirstBB(g), a, b, c}) = 4 /\ g.eh = <<>>
    /\ SeqToSet(Succs(g, fgFirstBB(g))) = {a, b}
    /\ SeqToSet(Succs(g, a)) = {c} /\ SeqToSet(Succs(g, b)) = {c} /\ Succs(g, c) = <<>>

\* C21: for the diamond entry -> A, entry -> B, A -> C, B -> C fgComputeDoms makes
\* the entry the immediate dominator of C, of A and of B, the entry dominates A
\* and B, and fgDominate(A, B) is false
C21_DiamondDominators ==
    (pc = "doms" /\ ~fatal) =>
        \A a \in Blocks(G), b \in Blocks(G), c \in Blocks(G) :
            Diamond(G, a, b, c) =>
                /\ bbIDom[c] = fgFirstBB(G) /\ bbIDom[a] = fgFirstBB(G) /\ bbIDom[b] = fgFirstBB(G)
                /\ fgDominate(G, fgFirstBB(G), a) /\ fgDominate(G, fgFirstBB(G), b)
                /\ fgDominate(G, fgFirstBB(G), c)
                /\ ~fgDominate(G, a, b) /\ ~fgDominate(G, b, a)
                /\ ~fgDominate(G, a, c) /\ ~fgDominate(G, b, c)

\* the dominators of a diamond whose join block lies between its two sides
C21_Witness ==
    /\ pc = "doms" /\ ~fatal /\ fgDomsComputed
    /\ \E a \in Blocks(G), b \in Blocks(G), c \in Blocks(G) :
          Diamond(G, a, b, c) /\ a < c /\ c < b /\ bbIDom[c] = fgFirstBB(G)


-----------------------------------------------------------------------------
(* The flow graphs the GC safe point flags are propagated on *)

\* the blocks of s carry BBF_GC_SAFE_POINT
GcFlags(n, s) == [b \in 1..n |-> IF b \in s THEN {"BBF_GC_SAFE_POINT"} ELSE {}]

\* every flow graph of up to MaxBlocks blocks without EH regions, any of its
\* blocks a GC safe point
InitGcSmall ==
    \E n \in 1..MaxBlocks :
      \E body \in [1..(n - 1) -> DomJumps(n, 1)], last \in DomJumps(n, n), s \in SUBSET (1..n) :
        \E g \in {MkGraph(n, [b \in 1..n |-> IF b < n THEN body[b] ELSE last],
                          [b \in 1..n |-> <<>>], [b \in 1..n |-> <<>>],
                          [b \in 1..n |-> <<>>], GcFlags(n, s), [b \in 1..n |-> 1],
                          [b \in 1..n |-> 0], [b \in 1..n |-> 0], <<>>, NoBlock, NoBlock, {}, FALSE)} :
          InitFrom(g)

\* a loop nest of seven blocks: BB01 BB02 BB03 is the outer loop (BB03 jumps back
\* to BB01), BB03 BB04 BB05 the middle one (BB05 jumps back to BB03), BB05 BB06
\* BB07 the inner one (BB07 jumps back to BB05), and BB06 may leave to BB01; any
\* of the blocks a GC safe point
InitGcNest ==
    \E s \in SUBSET (1..7), exit \in {1, 3, 5} :
      \E g \in {MkGraph(7, <<[kind |-> "BBJ_ALWAYS", dest |-> 2], [kind |-> "BBJ_ALWAYS", dest |-> 3],
                            [kind |-> "BBJ_COND", dest |-> 1], [kind |-> "BBJ_ALWAYS", dest |-> 5],
                            [kind |-> "BBJ_COND", dest |-> 3], [kind |-> "BBJ_COND", dest |-> exit],
                            [kind |-> "BBJ_ALWAYS", dest |-> 5]>>,
                        [b \in 1..7 |-> <<>>], [b \in 1..7 |-> <<>>],
                        [b \in 1..7 |-> <<>>], GcFlags(7, s), [b \in 1..7 |-> 1],
                        [b \in 1..7 |-> 0], [b \in 1..7 |-> 0], <<>>, NoBlock, NoBlock, {}, FALSE)} :
        InitFrom(g)

InitGc ==
    /\ InitGcSmall \/ InitGcNest
    /\ pc = "start"
    /\ loc = [pre |-> <<>>]

NextGc == UpdateChangedFlowGraph

SpecGc == InitGc /\ [][NextGc]_vars

-----------------------------------------------------------------------------
(* Claims on the GC safe point flags *)

\* every predecessor of b is a GC safe point
PredsAreGcSafe(g, b) ==
    PredSet(g, b) # {} /\ \A p \in PredSet(g, b) : "BBF_GC_SAFE_POINT" \in g.flags[p]

\* C23: after fgComputeReachabilitySets no block with at least one predecessor has
\* only predecessors flagged BBF_GC_SAFE_POINT without carrying the flag itself
C23_GcSafePointFixpoint ==
    (pc \in {"reach", "doms"} /\ ~fatal) =>
        \A b \in Blocks(G) : PredsAreGcSafe(G, b) => "BBF_GC_SAFE_POINT" \in bbFlags[b]


-----------------------------------------------------------------------------
(* Claims on the second loop of fgExpandRarelyRunBlocks *)

\* block b is not the first block, does not begin a handler, and each of its
\* predecessors is marked rarely run
AllPredsRare(g, b) ==
    /\ b # fgFirstBB(g) /\ ~bbIsHandlerBeg(g, b)
    /\ \A predBlock \in PredSet(g, b) : isRunRarely(g, predBlock)

\* C24 as stated: when fgExpandRarelyRunBlocks returns, every block other than
\* the first that is not a handler begin and whose predecessors are all rarely
\* run is itself rarely run
C24_AllPredsRareIsRare ==
    (pc = "expanded" /\ ~fatal) =>
      \A b \in Blocks(G) : AllPredsRare(G, b) => isRunRarely(G, b)


\* C24: the second loop of fgExpandRarelyRunBlocks is one forward sweep: when the
\* call returns, every block other than the first that is not a handler begin and
\* whose predecessors all come before it in the block list and are all rarely
\* run is itself rarely run; a block that begins a handler and was not rarely
\* run stays so, also when all its predecessors are rarely run
C24_ForwardPredsRareIsRare ==
    (pc = "expanded" /\ ~fatal) =>
      \A b \in Blocks(G) :
         /\ (/\ AllPredsRare(G, b)
             /\ \A predBlock \in PredSet(G, b) : IndexOf(G, predBlock) < IndexOf(G, b))
               => isRunRarely(G, b)
         /\ (bbIsHandlerBeg(G, b) /\ ~isRunRarely(loc.before, b)) => ~isRunRarely(G, b)

\* the first loop left a block unmarked that the second loop marked because its
\* predecessors, all before it, are rarely run, and the handler reached from
\* rarely run blocks only was not marked
C24_Witness ==
    /\ pc = "expanded" /\ ~fatal
    /\ \E b \in Blocks(G) :
          /\ ~isRunRarely(ExpandLoop([g |-> loc.before, result |-> FALSE], fgFirstBB(loc.before)).g, b)
          /\ isRunRarely(G, b) /\ AllPredsRare(G, b) /\ PredSet(G, b) # {}
          /\ \A predBlock \in PredSet(G, b) : IndexOf(G, predBlock) < IndexOf(G, b)
    /\ \E h \in Blocks(G) :
          /\ bbIsHandlerBeg(G, h) /\ ~isRunRarely(G, h) /\ PredSet(G, h) # {}
          /\ \A predBlock \in PredSet(G, h) : isRunRarely(G, predBlock)


-----------------------------------------------------------------------------
(* Claims on the weight of a compacted block *)

\* the larger of the weights of block and bNext
MaxWeight(g, block, bNext) ==
    IF g.weight[block] > g.weight[bNext] THEN g.weight[block] ELSE g.weight[bNext]

\* C25: in fgCompactBlocks, when bNext is not a throw block and neither block has
\* a profile weight, the merged block gets the weight max(block, bNext) only if
\* both weights are non-zero; if either weight is zero the merged block gets zero
\* weight and is marked rarely run; when bNext is a throw block the merged block
\* is always marked rarely run
C25_CompactedWeight ==
    (pc = "compacted" /\ ~fatal) =>
      With(loc.before, LAMBDA g0 :
        IF g0.kind[loc.bNext] = "BBJ_THROW"
        THEN isRunRarely(G, loc.block)
        ELSE (~hasProfileWeight(g0, loc.block) /\ ~hasProfileWeight(g0, loc.bNext)) =>
               IF g0.weight[loc.block] # 0 /\ g0.weight[loc.bNext] # 0
               THEN bbWeight[loc.block] = MaxWeight(g0, loc.block, loc.bNext)
               ELSE bbWeight[loc.block] = 0 /\ isRunRarely(G, loc.block))


-----------------------------------------------------------------------------
(* Claims on the switch with one significant clause *)

\* the jump table of loc.block when the loop over its entries has finished
ThreadedTable == SwitchThread(loc.before, loc.block, 1, FALSE, MaxRewrites).g.swt[loc.block]

\* the block ends with the test of its selector against zero
EndsWithEqualityTest(g, block) ==
    /\ g.kind[block] = "BBJ_COND" /\ g.stmts[block] # <<>>
    /\ g.stmts[block][Len(g.stmts[block])].tree = "GT_JTRUE(GT_EQ(switchVal, 0))"

\* C26 as stated: a switch block with exactly two unique targets whose
\* non-default target is its lexical successor is converted by
\* fgOptimizeSwitchBranches into an equality-test conditional branch
C26_NonDefaultNextSwitchBecomesCond ==
    (pc = "switched" /\ ~fatal /\ ~loc.diverged) =>
        With(ThreadedTable, LAMBDA jmpTab :
          (/\ Cardinality(SeqToSet(jmpTab)) = 2
           /\ \E i \in 1..(Len(jmpTab) - 1) :
                 jmpTab[i] # jmpTab[Len(jmpTab)] /\ jmpTab[i] = Next(loc.before, loc.block))
             => EndsWithEqualityTest(G, loc.block))

\* C26: a switch block whose jump table, after the loop over its entries, has
\* two entries with different targets and whose default target, the last entry,
\* is its lexical successor is converted by fgOptimizeSwitchBranches into a
\* BBJ_COND block that tests switchVal == 0 and jumps to the first entry; when it
\* is the first entry and not the default that is the lexical successor, the
\* block stays a switch
C26_DefaultNextSwitchBecomesCond ==
    (pc = "switched" /\ ~fatal /\ ~loc.diverged) =>
        With(ThreadedTable, LAMBDA jmpTab :
          (Len(jmpTab) = 2 /\ jmpTab[1] # jmpTab[2]) =>
             IF jmpTab[2] = Next(loc.before, loc.block)
             THEN /\ EndsWithEqualityTest(G, loc.block) /\ loc.result
                  /\ bbJumpDest[loc.block] = jmpTab[1] /\ Next(G, loc.block) = jmpTab[2]
             ELSE bbJumpKind[loc.block] = "BBJ_SWITCH" /\ bbJumpSwt[loc.block] = jmpTab)

\* a switch whose default entry was an empty jump to the next block has become a
\* conditional jump on the equality test
C26_Witness ==
    /\ pc = "switched" /\ ~fatal /\ ~loc.diverged /\ loc.result
    /\ Len(ThreadedTable) = 2 /\ ThreadedTable[1] # ThreadedTable[2]
    /\ ThreadedTable[2] = Next(loc.before, loc.block)
    /\ ThreadedTable[2] # loc.before.swt[loc.block][2]
    /\ EndsWithEqualityTest(G, loc.block)
    /\ bbJumpDest[loc.block] = ThreadedTable[1]


-----------------------------------------------------------------------------
(* Claims on the jump to an empty unconditional jump *)

NoJumpToRemoved ==
    ~fatal => \A b \in Blocks(G) :
                 bbJumpKind[b] \in {"BBJ_ALWAYS", "BBJ_COND"} =>
                    /\ "BBF_REMOVED" \notin bbFlags[bbJumpDest[b]]
                    /\ bbJumpKind[bbJumpDest[b]] = "BBJ_ALWAYS" =>
                          "BBF_REMOVED" \notin bbFlags[bbJumpDest[bbJumpDest[b]]]


-----------------------------------------------------------------------------
(* Claims on the loop over the jump table of a switch *)

\* the flow graph when the loop over the jump table of loc.block has finished
ThreadedGraph == SwitchThread(loc.before, loc.block, 1, FALSE, MaxRewrites).g

-----------------------------------------------------------------------------
(* fgCanCompactBlocks and the assertions of fgCompactBlocks *)

\* the last block of the try region of the flow graphs below
MaxTryLast == 2

\* a try region that begins at BB01 and ends at BB01 or BB02, its catch handler
\* BB04 at the end of the method, and BB03 after the try; nothing jumps into the
\* middle of the try or into the handler, and no block of the try returns; EH
\* regions may be relocated or not
InitCompact ==
    /\ \E tryLast \in 1..MaxTryLast, canRelocate \in BOOLEAN, code \in SUBSET (1..3), lir \in BOOLEAN :
         \E j1 \in [kind : {"BBJ_ALWAYS", "BBJ_COND"}, dest : 1..3],
            j2 \in [kind : {"BBJ_ALWAYS", "BBJ_COND"}, dest : 1..3]
                     \cup [kind : {"BBJ_RETURN", "BBJ_THROW"}, dest : {NoBlock}],
            j3 \in [kind : {"BBJ_ALWAYS"}, dest : {1, 3}]
                     \cup [kind : {"BBJ_RETURN", "BBJ_THROW"}, dest : {NoBlock}],
            j4 \in {MJump("BBJ_THROW", NoBlock), MJump("BBJ_EHCATCHRET", 3)} :
           /\ tryLast = 2 => j2.kind # "BBJ_RETURN"
           /\ \E jmp \in {<<j1, j2, j3, j4>>} :
              \E g \in {[MkGraph(4, jmp, [b \in 1..4 |-> <<>>], [b \in 1..4 |-> <<>>],
                                 [b \in 1..4 |-> SimpStmts(b, jmp[b].kind, b \in code \/ b = 4, FALSE)],
                                 EHFlags(4, <<[ebdTryBeg |-> 1, ebdHndBeg |-> 4, ebdFilter |-> NoBlock,
                                               ebdEnclosingTryIndex |-> 0]>>),
                                 [b \in 1..4 |-> 1],
                                 [b \in 1..4 |-> IF b <= tryLast THEN 1 ELSE 0],
                                 [b \in 1..4 |-> IF b = 4 THEN 1 ELSE 0],
                                 <<[ebdTryBeg |-> 1, ebdHndBeg |-> 4, ebdFilter |-> NoBlock,
                                    ebdEnclosingTryIndex |-> 0]>>,
                                 NoBlock, NoBlock, {}, lir)
                          EXCEPT !.fgCanRelocateEHRegions = canRelocate]} :
                InitFrom(g)
    /\ pc = "start"
    /\ loc = [before |-> <<>>]

NextCompact == CompactBlocks

SpecCompact == InitCompact /\ [][NextCompact]_vars

\* C29: fgCanCompactBlocks returns true only for pairs that satisfy every
\* precondition fgCompactBlocks asserts; in particular it never accepts two
\* blocks in different EH regions (one inside a try and the other not) nor a bNext
\* that begins a try or a handler
C29_CanCompactImpliesAsserts ==
    pc = "compacted" =>
        /\ CompactAsserts(loc.before, loc.block, loc.bNext)
        /\ loc.before.kind[loc.block] = "BBJ_ALWAYS" /\ loc.before.dest[loc.block] = loc.bNext
        /\ "BBF_KEEP_BBJ_ALWAYS" \notin loc.before.flags[loc.block]
        /\ (loc.before.try[loc.block] # 0) = (loc.before.try[loc.bNext] # 0)
        /\ ~bbIsTryBeg(loc.before, loc.bNext) /\ ~bbIsHandlerBeg(loc.before, loc.bNext)
        /\ ~fatal


-----------------------------------------------------------------------------
(* fgDominate and fgReachable on blocks created after the dominators were computed *)

\* the number of blocks created after the dominators were computed
MaxNewBlocks == 2

\* the number of jumps redirected to such blocks
MaxRedirects == 2

\* the blocks numbered above fgDomBBcount
NewBlocks(g) == {b \in Blocks(g) : g.num[b] > g.domBBcount}

\* flow graphs of one or two blocks whose dominators have been computed
InitQuery ==
    /\ \E n \in 1..2 :
         \E jmp \in [1..n -> DomJumps(n, 1)] :
           /\ \A b \in 1..n : jmp[b] \in DomJumps(n, b)
           /\ \E g \in {MkGraph(n, jmp, [b \in 1..n |-> <<>>], [b \in 1..n |-> <<>>],
                                [b \in 1..n |-> <<>>], [b \in 1..n |-> {}], [b \in 1..n |-> 1],
                                [b \in 1..n |-> 0], [b \in 1..n |-> 0], <<>>,
                                NoBlock, NoBlock, {}, FALSE)} :
                \E g1 \in {fgUpdateChangedFlowGraph(g, TRUE)} :
                   /\ ~g1.fatal
                   /\ InitFrom(g1)
    /\ pc = "doms"
    /\ loc = [redirects |-> 0]

\* a new BBJ_ALWAYS block is put after a block that does not fall through, with
\* its edge to its target
NewBBafter ==
    /\ pc = "doms" /\ Cardinality(NewBlocks(G)) < MaxNewBlocks
    /\ \E g0 \in {G} : \E block \in Blocks(g0), jumpDest \in Blocks(g0) :
          /\ ~bbFallsThrough(g0, block)
          /\ \E g1 \in {fgAddRefPred(fgNewBBafter(g0, "BBJ_ALWAYS", block, jumpDest),
                                     jumpDest, 1 + Cardinality(Ids(g0)))} : SetG(g1)
    /\ UNCHANGED <<pc, loc>>

\* the jump of a block is redirected to a new block
ReplaceJumpTarget ==
    /\ pc = "doms" /\ loc.redirects < MaxRedirects
    /\ \E g0 \in {G} : \E block \in Blocks(g0), newTarget \in NewBlocks(g0) :
          /\ g0.kind[block] \in {"BBJ_ALWAYS", "BBJ_COND"} /\ g0.dest[block] # newTarget
          /\ \E g1 \in {fgReplaceJumpTarget(g0, block, newTarget, g0.dest[block])} : SetG(g1)
    /\ loc' = [redirects |-> loc.redirects + 1]
    /\ UNCHANGED pc

\* fgDominate(b1, b2) or fgReachable(b1, b2) is asked about a new block
Query ==
    /\ pc = "doms" /\ ~fatal
    /\ \E g0 \in {G} : \E b1 \in Blocks(g0), b2 \in Blocks(g0), query \in {"fgDominate", "fgReachable"} :
          /\ {b1, b2} \cap NewBlocks(g0) # {}
          /\ SetG(g0)
          /\ loc' = [redirects |-> loc.redirects, query |-> query, b1 |-> b1, b2 |-> b2,
                     answer |-> IF query = "fgDominate"
                                THEN fgDominateR(g0, b1, b2, QueryFuel(g0))
                                ELSE fgReachableR(g0, b1, b2, QueryFuel(g0))]
    /\ pc' = "queried"

NextQuery == NewBBafter \/ ReplaceJumpTarget \/ Query

SpecQuery == InitQuery /\ [][NextQuery]_vars

\* C30: the fallback in fgDominate and fgReachable for blocks numbered above
\* fgDomBBcount terminates for every arrangement of newly created blocks,
\* including new blocks that are predecessors or successors of one another
C30_FallbackTerminates == pc = "queried" => loc.answer # "D"


-----------------------------------------------------------------------------
(* What fgUpdateFlowGraph leaves behind *)

\* the block list has a block flagged removed
HasRemovedBlock(g) == \E b \in Blocks(g) : "BBF_REMOVED" \in g.flags[b]

\* a BBJ_COND block jumps to its lexical successor
HasCondToNext(g) == \E b \in Blocks(g) : g.kind[b] = "BBJ_COND" /\ g.dest[b] = Next(g, b)

\* fgCanCompactBlocks holds for a block and its lexical successor
HasCompactablePair(g) == \E b \in Blocks(g) : fgCanCompactBlocks(g, b, Next(g, b))

\* a block that may be removed has no incoming edge
HasUnreferencedBlock(g) ==
    \E b \in Blocks(g) : "BBF_DONT_REMOVE" \notin g.flags[b] /\ g.refs[b] = 0

\* C22 as stated: when fgUpdateFlowGraph returns, the block list contains no
\* block flagged removed, no BBJ_COND block whose jump target is its lexical
\* successor, no adjacent pair for which fgCanCompactBlocks holds, and no block
\* without the don't-remove flag that has zero incoming edges
C22_UpdatedGraphIsClean ==
    (pc \in {"updated", "again"} /\ ~fatal /\ ~loc.diverged) =>
        /\ ~HasRemovedBlock(G) /\ ~HasCondToNext(G)
        /\ ~HasCompactablePair(G) /\ ~HasUnreferencedBlock(G)

\* fgUpdateFlowGraph has rewritten a flow graph that had a conditional jump
\* to the next block and a block to compact or to remove, and has flagged the
\* blocks it took out of the block list
C22_Witness ==
    /\ pc = "updated" /\ ~fatal /\ ~loc.diverged /\ loc.modified
    /\ HasCondToNext(loc.before)
    /\ HasCompactablePair(loc.before) \/ HasUnreferencedBlock(loc.before)
    /\ \E b \in Ids(G) \ Blocks(G) : "BBF_REMOVED" \in bbFlags[b]
    /\ ~HasCondToNext(G) /\ ~HasCompactablePair(G) /\ ~HasUnreferencedBlock(G)

-----------------------------------------------------------------------------
(* fgDominate and fgReachable from a new block to a block that has dominators *)

\* the blocks a walk from the blocks S arrives at when it leaves new blocks by
\* their jump (and, for a BBJ_COND, also to their next block)
RECURSIVE NewSuccClosure(_, _)
NewSuccClosure(g, S) ==
    LET T == S \cup {t \in Blocks(g) : \E s \in S \cap NewBlocks(g) :
                        \/ t = g.dest[s]
                        \/ g.kind[s] = "BBJ_COND" /\ t = Next(g, s)}
    IN IF T = S THEN S ELSE NewSuccClosure(g, T)

\* a query from a block created after the dominators were computed about a
\* block that existed then
NewSourceOldTarget ==
    /\ pc = "queried"
    /\ loc.b1 \in NewBlocks(G)
    /\ loc.b2 \notin NewBlocks(G)

\* C31 as stated: for a source block b1 created after the last computation of
\* dominators and a target block b2 that existed then, fgDominate(b1, b2) and
\* fgReachable(b1, b2) both return false
C31_NewSourceAnswersFalse ==
    (NewSourceOldTarget /\ loc.answer # "D") => loc.answer = "F"

\* C31: for such b1 and b2, fgDominate(b1, b2) returns false, while
\* fgReachable(b1, b2), when it returns, follows the jumps of the new blocks
\* from b1 and returns true exactly when it arrives at a block that the
\* reachability set of b2 holds
C31_NewSourceDominateFalseReachFollows ==
    NewSourceOldTarget =>
        /\ loc.query = "fgDominate" => loc.answer = "F"
        /\ (loc.query = "fgReachable" /\ loc.answer # "D") =>
              (loc.answer = "T" <=>
                  \E x \in NewSuccClosure(G, {loc.b1}) \ NewBlocks(G) : G.num[x] \in G.reach[loc.b2])

\* fgReachable returned true for a new block that jumps to a block reaching b2
C31_Witness ==
    /\ NewSourceOldTarget
    /\ loc.query = "fgReachable"
    /\ loc.answer = "T"
    /\ G.dest[loc.b1] \notin NewBlocks(G)

-----------------------------------------------------------------------------
(* fgComputeDoms called again after the flow graph was edited *)

\* the number of jumps redirected between two computations of the dominators
MaxEdits == 1

\* flow graphs of four blocks with one EH clause: the try begins at BB01, the
\* handler at BB03; no jump and no fall-through enters the handler
InitRedom ==
    /\ \E j1 \in DomJumps(4, 1), j2 \in DomJumps(4, 4), j3 \in DomJumps(4, 4), j4 \in DomJumps(4, 4) :
           \E jmp \in {<<j1, j2, j3, j4>>} :
             /\ \A b \in 1..4 : jmp[b].dest # 3
             /\ \E eh \in {<<[ebdTryBeg |-> 1, ebdHndBeg |-> 3, ebdFilter |-> NoBlock,
                              ebdEnclosingTryIndex |-> 0]>>} :
                  \E g \in {MkGraph(4, [b \in 1..4 |-> jmp[b]],
                                    [b \in 1..4 |-> <<>>], [b \in 1..4 |-> <<>>],
                                    [b \in 1..4 |-> <<>>], EHFlags(4, eh), [b \in 1..4 |-> 1],
                                    [b \in 1..4 |-> 0], [b \in 1..4 |-> 0], eh, NoBlock, NoBlock, {}, FALSE)} :
                     InitFrom(g)
    /\ pc = "start"
    /\ loc = [edits |-> 0]

\* between two computations a jump is redirected to another block that is not
\* the handler begin
RedirectJump ==
    /\ pc = "doms" /\ ~fatal /\ loc.edits < MaxEdits
    /\ \E g0 \in {G} : \E block \in Blocks(g0), newTarget \in Blocks(g0) \ EHRoots(g0) :
          /\ g0.kind[block] \in {"BBJ_ALWAYS", "BBJ_COND"} /\ g0.dest[block] # newTarget
          /\ \E g1 \in {fgReplaceJumpTarget(g0, block, newTarget, g0.dest[block])} : SetG(g1)
    /\ loc' = [edits |-> loc.edits + 1]
    /\ pc' = "start"

NextRedom == UpdateChangedFlowGraph \/ RedirectJump

SpecRedom == InitRedom /\ [][NextRedom]_vars

\* a block and its immediate dominators up to a root of the dominator forest
RECURSIVE IdomChain(_, _)
IdomChain(g, b) == IF b = NoBlock THEN {} ELSE {b} \cup IdomChain(g, g.idom[b])

\* the handler and filter begin blocks other than the primary entry
ExceptionalEntries(g) == EHRoots(g) \ {fgFirstBB(g)}

\* the flag is on exactly the blocks under an exceptional entry
FlagIsExact(g) ==
    \A b \in Blocks(g) :
        ("BBF_DOMINATED_BY_EXCEPTIONAL_ENTRY" \in g.flags[b])
            <=> (IdomChain(g, b) \cap ExceptionalEntries(g) # {})

\* C32: after every call of fgComputeDoms, including a recomputation after
\* flow-graph edits, a block carries the dominated-by-exceptional-entry flag
\* exactly when it is an EH handler or filter entry other than the primary
\* entry or its immediate-dominator chain contains such an entry
C32_FlagIffUnderExceptionalEntry == (pc = "doms" /\ ~fatal) => FlagIsExact(G)

\* the first computation leaves the flag exact
FirstDomsFlagIsExact == (pc = "doms" /\ ~fatal /\ loc.edits = 0) => FlagIsExact(G)

\* every computation sets the flag on all blocks under an exceptional entry
FlagCoversExceptionalEntries ==
    (pc = "doms" /\ ~fatal) =>
        \A b \in Blocks(G) : IdomChain(G, b) \cap ExceptionalEntries(G) # {}
                                => "BBF_DOMINATED_BY_EXCEPTIONAL_ENTRY" \in bbFlags[b]

-----------------------------------------------------------------------------
(* The fixpoint loop of fgComputeDoms *)

\* C33: in fgComputeDoms, whenever every block either has no predecessors or is
\* reachable from the entry or an EH handler or filter begin, each block
\* processed in the fixpoint loop has an already processed predecessor, so no
\* noway_assert of the loop fails, and the loop ends with a non-null immediate
\* dominator (a block or the imaginary root) for every block
C33_ProcessedPredExists ==
    (pc = "doms" /\ AllRooted(G)) =>
        /\ ~fatal
        /\ fgDomsComputed
        /\ \E s \in {DomLoop(G)} :
              /\ ~s.fatal
              /\ \A b \in Blocks(G) : s.idom[b] # NoBlock /\ bbNum[b] \in s.processed

-----------------------------------------------------------------------------
(* The first loop of fgExpandRarelyRunBlocks, iteration by iteration *)

\* the number of iterations of the first loop that are followed
MaxLoopSteps == 40

\* the blocks of the list that are not marked rarely run
NotRare(g) == {b \in Blocks(g) : ~isRunRarely(g, b)}

\* the loop is entered with bPrev = fgFirstBB
InitRareLoop ==
    /\ InitRarePlain \/ InitRarePair
    /\ pc = "loop"
    /\ loc = [bPrev |-> fgFirstBB(G), result |-> FALSE, steps |-> 0, marks |-> 0, resets |-> 0,
              unmarked |-> Cardinality(NotRare(G))]

\* one iteration of the for loop
ExpandRarelyRunStep ==
    /\ pc = "loop" /\ loc.steps < MaxLoopSteps
    /\ \E g0 \in {G} : \E it \in {ExpandIter([g |-> g0, result |-> loc.result], loc.bPrev)} :
          /\ SetG(it.s.g)
          /\ loc' = [bPrev |-> it.bPrev, result |-> it.s.result,
                     steps |-> loc.steps + 1,
                     marks |-> loc.marks + (IF it.marked THEN 1 ELSE 0),
                     resets |-> loc.resets + (IF it.reset THEN 1 ELSE 0),
                     unmarked |-> loc.unmarked]
          /\ pc' = IF it.done THEN "expanded1" ELSE "loop"

NextRareLoop == ExpandRarelyRunStep

SpecRareLoop == InitRareLoop /\ [][NextRareLoop]_vars

\* the loop is sequential code: an iteration that can be made is made
SpecRareLoopFair == SpecRareLoop /\ WF_vars(ExpandRarelyRunStep)

\* every reset follows the marking of a block that was not marked before, so
\* there are at most as many resets as blocks
ResetsFollowMarks ==
    /\ loc.resets <= loc.marks
    /\ loc.marks + Cardinality(NotRare(G)) = loc.unmarked
    /\ loc.resets <= Len(bbList)

\* C34: the first loop of fgExpandRarelyRunBlocks terminates even though it
\* resets its scan position backwards: every backward reset is preceded by
\* marking one previously unmarked block rarely run, so a method with N blocks
\* sees at most N resets
C34_FirstLoopTerminates == []ResetsFollowMarks /\ <>(pc = "expanded1")

\* the loop has ended after it went back at least twice
C34_Witness ==
    /\ pc = "expanded1" /\ ~fatal
    /\ loc.resets >= 2
    /\ loc.steps > Len(bbList)

-----------------------------------------------------------------------------
(* The choice of the cross-jump victim in tailMergePreds *)

\* tailMergePreds: the first set of at least two predecessors with matching
\* last statements, in the order matchedPredInfo.TopRef gives them; <<>> if
\* there is none
MatchedPreds(P) ==
    With({k0 \in 2..Len(P) : \E k \in 1..(k0 - 1) : Compare(P[k0].stmt, P[k].stmt)}, LAMBDA K :
    IF Len(P) < 2 \/ Len(P) > mergeLimit \/ K = {} THEN <<>>
    ELSE With(CHOOSE k0 \in K : \A k \in K : k <= k0, LAMBDA k0 :
              SelectSeq(SubSeq(P, 1, k0), LAMBDA e : Compare(P[k0].stmt, e.stmt))))

\* six blocks: the entry BB01, which may be the scratch block, jumps to the
\* join; the join is one of BB02..BB05 and switches to the other three of them
\* and to the return BB06; the other three jump to the join
InitVictim ==
    /\ \E join \in 2..5, scratch \in BOOLEAN,
          body \in [1..5 -> {<<"x = 5">>, <<"y = 7", "x = 5">>, <<"y = 7">>}] :
         \E jmp \in {[b \in 1..6 |->
                        CASE b = join -> MJump("BBJ_SWITCH", NoBlock)
                          [] b = 6 -> MJump("BBJ_RETURN", NoBlock)
                          [] OTHER -> MJump("BBJ_ALWAYS", join)]} :
         \E g \in {SimpGraph(6, jmp,
                             [b \in 1..6 |-> IF b = join
                                             THEN SelectSeq(<<2, 3, 4, 5, 6>>, LAMBDA t : t # join)
                                             ELSE <<>>],
                             [b \in 1..6 |->
                                CASE b = join -> MStmts(b, <<>>, "GT_SWITCH(switchVal)")
                                  [] b = 6 -> MStmts(b, <<>>, "GT_RETURN(x)")
                                  [] OTHER -> MStmts(b, body[b], "")],
                             [b \in 1..6 |-> IF scratch /\ b = 1 THEN {"BBF_INTERNAL"} ELSE {}],
                             [b \in 1..6 |-> 1], FALSE)} :
            InitFrom(g)
    /\ pc = "start"
    /\ loc = [before |-> <<>>]

\* tailMergePreds finds a set of matching predecessors of commSucc that are
\* not all its predecessors and picks the victim of the cross jump
PickCrossJumpVictim ==
    /\ pc = "start"
    /\ \E g0 \in {G} : \E commSucc \in {b \in Blocks(g0) : g0.refs[b] >= 2} :
          \E matched \in {MatchedPreds(PredInfoOf(g0, commSucc))} :
             /\ Len(matched) >= 2
             /\ Len(matched) # g0.refs[commSucc]
             /\ \E v \in {CrossJumpVictim(g0, matched, 1, [index |-> 0, haveNoSplitVictim |-> FALSE,
                                                           haveFallThroughVictim |-> FALSE])} :
                   loc' = [commSucc |-> commSucc, matched |-> matched, v |-> v]
    /\ pc' = "picked"
    /\ SetG(G)

NextVictim == PickCrossJumpVictim

SpecVictim == InitVictim /\ [][NextVictim]_vars

\* the matched predecessors that can be the victim, by index in matched
VictimCandidates == {j \in 1..Len(loc.matched) : ~fgBBisScratch(G, loc.matched[j].block)}

\* the matching statement of the j-th matched predecessor is its first statement
NeedsNoSplit(j) == loc.matched[j].stmt.id = bbStmtList[loc.matched[j].block][1].id

\* the j-th matched predecessor jumps to its lexical successor
JumpsToLexicalSucc(j) ==
    /\ bbJumpKind[loc.matched[j].block] = "BBJ_ALWAYS"
    /\ bbJumpDest[loc.matched[j].block] = Next(G, loc.matched[j].block)

\* C35: when tail merging cross-jumps a partial set of matching predecessors,
\* the chosen victim needs no split whenever at least one matching non-scratch
\* predecessor needs no split, and among such no-split candidates one that
\* jumps to its lexical successor is chosen if one exists; the scratch block is
\* never chosen
C35_VictimChoice ==
    pc = "picked" =>
        /\ loc.v.index \in VictimCandidates
        /\ (\E j \in VictimCandidates : NeedsNoSplit(j)) => NeedsNoSplit(loc.v.index)
        /\ (\E j \in VictimCandidates : NeedsNoSplit(j) /\ JumpsToLexicalSucc(j))
              => (NeedsNoSplit(loc.v.index) /\ JumpsToLexicalSucc(loc.v.index))

\* the scratch block is among the matched predecessors, and a candidate that
\* needs no split but does not jump to its lexical successor comes before the
\* chosen one, which does both
C35_Witness ==
    /\ pc = "picked"
    /\ \E j \in 1..Len(loc.matched) : fgBBisScratch(G, loc.matched[j].block) /\ NeedsNoSplit(j)
    /\ \E j \in VictimCandidates : j < loc.v.index /\ NeedsNoSplit(j) /\ ~JumpsToLexicalSucc(j)
    /\ NeedsNoSplit(loc.v.index) /\ JumpsToLexicalSucc(loc.v.index)

-----------------------------------------------------------------------------
(* fgHeadTailMerge, merge by merge *)

\* the number of steps of fgHeadTailMerge that are followed
MaxMergeSteps == 60

\* the total number of statements in the method
TotalStmts(g) == SumOver([b \in Ids(g) |-> Len(g.stmts[b])], Blocks(g))

\* the locals of fgHeadTailMerge as the steps below keep them
MergeLocals(block, st, retBlocks, merged, before, steps) ==
    [block |-> block, retryBlocks |-> st.retryBlocks, madeChanges |-> st.madeChanges,
     retBlocks |-> retBlocks, merged |-> merged, before |-> before, steps |-> steps,
     g0 |-> loc.g0]

\* the state record the merging operators work on
MergeState == [g |-> G, retryBlocks |-> loc.retryBlocks, madeChanges |-> loc.madeChanges]

\* the first loop is entered at fgFirstBB
InitMergeSteps ==
    /\ InitMergeDiamond \/ InitMergeEntry \/ InitMergeThree \/ InitMergeReturns
    /\ pc = "tail"
    /\ loc = [block |-> fgFirstBB(G), retryBlocks |-> <<>>, madeChanges |-> FALSE,
              retBlocks |-> <<>>, merged |-> FALSE, before |-> TotalStmts(G), steps |-> 0, g0 |-> G]

\* "Visit each block": one call of tailMerge(block) in iterateTailMerge; when it
\* returns false the loop goes on to the next block
TailMergeStep ==
    /\ pc = "tail" /\ loc.steps < MaxMergeSteps
    /\ \E g0 \in {G} : \E block \in {loc.block} : \E t \in {tailMerge(MergeState, block)} :
          /\ SetG(t.s.g)
          /\ IF t.again /\ ~t.s.g.fatal
             THEN /\ loc' = MergeLocals(block, t.s, loc.retBlocks, TRUE, TotalStmts(g0), loc.steps + 1)
                  /\ pc' = "tail"
             ELSE /\ loc' = MergeLocals(Next(t.s.g, block), t.s,
                                        IF /\ t.s.g.kind[block] = "BBJ_RETURN"
                                           /\ Len(t.s.g.stmts[block]) = 1
                                           /\ block # t.s.g.genReturnBB
                                        THEN Append(loc.retBlocks, block) ELSE loc.retBlocks,
                                        FALSE, TotalStmts(g0), loc.steps + 1)
                  /\ pc' = IF t.s.g.fatal THEN "merged"
                           ELSE IF Next(t.s.g, block) = NoBlock THEN "rets" ELSE "tail"

\* tailMergePreds(nullptr) on the return blocks collected
ReturnMergeStep ==
    /\ pc = "rets" /\ loc.steps < MaxMergeSteps
    /\ \E g0 \in {G} :
         \E t \in {tailMergePreds(MergeState, NoBlock,
                                  [i \in 1..Len(loc.retBlocks) |->
                                     [block |-> loc.retBlocks[i],
                                      stmt |-> g0.stmts[loc.retBlocks[i]][Len(g0.stmts[loc.retBlocks[i]])]]])} :
          /\ SetG(t.s.g)
          /\ loc' = MergeLocals(NoBlock, t.s, loc.retBlocks, t.again, TotalStmts(g0), loc.steps + 1)
          /\ pc' = IF t.s.g.fatal THEN "merged" ELSE "retry"

\* "Work through any retries": a block is popped, or tailMerge is called once
\* more on the block popped
RetryStep ==
    /\ pc = "retry" /\ loc.steps < MaxMergeSteps
    /\ \E g0 \in {G} :
          IF loc.block = NoBlock
          THEN /\ SetG(g0)
               /\ IF loc.retryBlocks = <<>>
                  THEN /\ loc' = [MergeLocals(fgFirstBB(g0), MergeState, loc.retBlocks, FALSE,
                                              TotalStmts(g0), loc.steps + 1)
                                     EXCEPT !.retryBlocks = <<>>]
                       /\ pc' = "head"
                  ELSE /\ loc' = [MergeLocals(Head(loc.retryBlocks), MergeState, loc.retBlocks, FALSE,
                                              TotalStmts(g0), loc.steps + 1)
                                     EXCEPT !.retryBlocks = Tail(loc.retryBlocks)]
                       /\ pc' = "retry"
          ELSE \E t \in {tailMerge(MergeState, loc.block)} :
                  /\ SetG(t.s.g)
                  /\ loc' = MergeLocals(IF t.again THEN loc.block ELSE NoBlock, t.s, loc.retBlocks,
                                        t.again, TotalStmts(g0), loc.steps + 1)
                  /\ pc' = IF t.s.g.fatal THEN "merged" ELSE "retry"

\* "Visit each block and try to merge first statements of successors": one call
\* of fgTryOneHeadMerge(block) in fgHeadMerge; when it returns false the loop
\* goes on to the next block
HeadMergeStep ==
    /\ pc = "head" /\ loc.steps < MaxMergeSteps
    /\ \E g0 \in {G} : \E h \in {fgTryOneHeadMerge(g0, loc.block)} :
          /\ SetG(h.g)
          /\ loc' = [MergeLocals(IF h.result THEN loc.block ELSE Next(h.g, loc.block), MergeState,
                                 loc.retBlocks, h.result, TotalStmts(g0), loc.steps + 1)
                        EXCEPT !.madeChanges = loc.madeChanges \/ h.result]
          /\ pc' = IF h.g.fatal \/ (~h.result /\ Next(h.g, loc.block) = NoBlock) THEN "merged" ELSE "head"

NextMergeSteps == TailMergeStep \/ ReturnMergeStep \/ RetryStep \/ HeadMergeStep

SpecMergeSteps == InitMergeSteps /\ [][NextMergeSteps]_vars

\* the phase is sequential code: a step that can be made is made
SpecMergeStepsFair == SpecMergeSteps /\ WF_vars(NextMergeSteps)

\* a step that merged has left fewer statements than it found
MergeReducesStmts == loc.merged => TotalStmts(G) < loc.before

\* the steps arrive where fgHeadTailMerge as a whole does
MergeStepsAgree ==
    (pc = "merged" /\ ~fatal) =>
        \E r \in {fgHeadTailMerge(loc.g0, TRUE)} :
            r.g = G /\ r.madeChanges = loc.madeChanges

\* C36: tail merging and head merging terminate: every successful tail merge
\* or head merge strictly reduces the total number of statements in the
\* method, so the per-block retry loops and the retry worklist of
\* fgHeadTailMerge finish after finitely many steps
C36_MergingTerminates == []MergeReducesStmts /\ <>(pc = "merged")

\* a cross jump has put a block on the retry worklist, and a tail merge made on
\* that block has left fewer statements
C36_Witness ==
    /\ pc = "retry" /\ ~fatal
    /\ loc.block # NoBlock /\ loc.merged
    /\ TotalStmts(G) < loc.before
    /\ TotalStmts(G) + 2 <= TotalStmts(loc.g0)


\* ---------------------------------------------------------------------------------------
\* fgOptimizeSwitchJumps: peeling the dominant case of a switch
\* ---------------------------------------------------------------------------------------

\* How often fgOptimizeSwitchJumps is called in a row.
MaxPeelCalls == 3

SwitchStmt(id) == [SStmt(id, FALSE, TRUE, FALSE) EXCEPT !.tree = "GT_SWITCH(switchVal)"]

\* fgNewStmtFromTree(GT_JTRUE(GT_EQ(switchValue, dominantCase))): a statement nobody else holds.
DominantCaseJump(g) ==
    [id |-> 1 + With({0} \cup {g.stmts[p[1]][p[2]].id :
                                  p \in {q \in Ids(g) \X (1..8) : q[2] <= Len(g.stmts[q[1]])}},
                     LAMBDA S : CHOOSE m \in S : \A x \in S : x <= m),
     phi |-> FALSE, test |-> TRUE, se |-> FALSE, rev |-> FALSE, tree |-> "GT_JTRUE(GT_EQ)"]

\* fgSplitBlockAtBeginning(curr): fgSplitBlockAtEnd, then every statement of curr moves to the
\* new block.
fgSplitBlockAtBeginning(gg, curr) ==
    With(gg, LAMBDA g :
    With(fgNewBBafter(g, g.kind[curr], curr, g.dest[curr]), LAMBDA g1 :
    With(Next(g1, curr), LAMBDA newBlock :
    With([g1 EXCEPT !.flags[newBlock] = g.flags[curr] \ {"BBF_DONT_REMOVE"},
                    !.swt[newBlock] = g.swt[curr], !.ehf[newBlock] = g.ehf[curr],
                    !.swt[curr] = <<>>, !.ehf[curr] = <<>>,
                    !.swtDom[newBlock] = g.swtDom[curr], !.swtDom[curr] = NoDominantCase,
                    !.stmts[newBlock] = g.stmts[curr],
                    !.stmts[curr] = <<>>,
                    !.kind[curr] = "BBJ_ALWAYS", !.dest[curr] = newBlock,
                    !.flags[curr] = @ \cup {"BBF_NONE_QUIRK"}], LAMBDA g2 :
    fgAddRefPred(ReplacePreds(g2, Succs(g, curr), curr, newBlock), newBlock, curr)))))

\* The body of the loop of fgOptimizeSwitchJumps for a switch block that is peeled.  Weights
\* are whole numbers and bbsDominantFraction is kept in halves, so that the products are exact;
\* edge weights are not part of the model.
PeelDominantCase_FlagKeptWhenRare(gg, block) ==
    With(gg, LAMBDA g :
    With(g.swt[block][g.swtDom[block].case + 1], LAMBDA dominantTarget :
    With(IF Len(g.stmts[block]) = 1 THEN fgSplitBlockAtBeginning(g, block)
         ELSE fgSplitBlockAfterStatement(g, block, g.stmts[block][Len(g.stmts[block]) - 1]),
         LAMBDA g1 :
    With(Next(g1, block), LAMBDA newBlock :
    With([g1 EXCEPT !.stmts[block] = Append(@, DominantCaseJump(g1)),
                    !.kind[block] = "BBJ_COND", !.dest[block] = dominantTarget], LAMBDA g2 :
    With(fgAddRefPred(g2, dominantTarget, block), LAMBDA g3 :
    With(g3.weight[block] - (g3.weight[block] * g3.swtDom[newBlock].halves) \div 2, LAMBDA w :
    [g3 EXCEPT !.weight[newBlock] = w,
               !.flags[newBlock] = IF w = 0 THEN @ \cup {"BBF_PROF_WEIGHT", "BBF_RUN_RARELY"}
                                   ELSE (@ \cup {"BBF_PROF_WEIGHT"}) \ {"BBF_RUN_RARELY"},
               !.swtDom[newBlock].has = (w = 0)])))))))

PeelDominantCase(gg, block) ==
    With(gg, LAMBDA g :
    With(g.swt[block][g.swtDom[block].case + 1], LAMBDA dominantTarget :
    With(IF Len(g.stmts[block]) = 1 THEN fgSplitBlockAtBeginning(g, block)
         ELSE fgSplitBlockAfterStatement(g, block, g.stmts[block][Len(g.stmts[block]) - 1]),
         LAMBDA g1 :
    With(Next(g1, block), LAMBDA newBlock :
    With([g1 EXCEPT !.stmts[block] = Append(@, DominantCaseJump(g1)),
                    !.kind[block] = "BBJ_COND", !.dest[block] = dominantTarget], LAMBDA g2 :
    With(fgAddRefPred(g2, dominantTarget, block), LAMBDA g3 :
    With(g3.weight[block] - (g3.weight[block] * g3.swtDom[newBlock].halves) \div 2, LAMBDA w :
    [g3 EXCEPT !.weight[newBlock] = w,
               !.flags[newBlock] = IF w = 0 THEN @ \cup {"BBF_PROF_WEIGHT", "BBF_RUN_RARELY"}
                                   ELSE (@ \cup {"BBF_PROF_WEIGHT"}) \ {"BBF_RUN_RARELY"},
               !.swtDom[newBlock].has = FALSE])))))))

\* The blocks the loop of fgOptimizeSwitchJumps peels.
HasPeelableSwitch(g, block) ==
    /\ g.kind[block] = "BBJ_SWITCH"
    /\ ~isRunRarely(g, block)
    /\ g.swtDom[block].has

\* for (BasicBlock* const block : Blocks()): the iteration follows bbNext, so that the block a
\* split has put after the current one is visited next.
RECURSIVE SwitchJumpsFrom(_, _)
SwitchJumpsFrom(st, block) ==
    IF block = NoBlock THEN st
    ELSE IF HasPeelableSwitch(st.g, block)
         THEN With(PeelDominantCase(st.g, block), LAMBDA g1 :
                   SwitchJumpsFrom([g |-> g1, modified |-> TRUE], Next(g1, block)))
         ELSE SwitchJumpsFrom(st, Next(st.g, block))

fgOptimizeSwitchJumps(gg, fgHasSwitch) ==
    With(gg, LAMBDA g :
    IF ~fgHasSwitch THEN [g |-> g, modified |-> FALSE]
    ELSE SwitchJumpsFrom([g |-> g, modified |-> FALSE], fgFirstBB(g)))

\* Methods of four blocks whose first two blocks may end in a switch of three cases; a switch
\* may carry a dominant case (never the default case, the last one), and a block with a
\* dominant case has profile data.
PeelTables == {<<3, 4, 4>>, <<3, 3, 4>>, <<1, 4, 3>>}
PeelDominants ==
    {NoDominantCase} \cup {[has |-> TRUE, case |-> c, halves |-> h] : c \in 0..1, h \in 1..2}
PeelEnds(next) ==
    {[kind |-> "BBJ_ALWAYS", dest |-> next, swt |-> <<>>, dom |-> NoDominantCase, w |-> 4, n |-> 1]}
    \cup {[kind |-> "BBJ_SWITCH", dest |-> NoBlock, swt |-> t, dom |-> d, w |-> w, n |-> n] :
            t \in PeelTables, d \in PeelDominants, w \in {0, 4}, n \in 1..2}

PeelBlockStmts(b, e) ==
    IF e.kind = "BBJ_SWITCH"
    THEN (IF e.n = 2 THEN <<SStmt(10 * b + 1, FALSE, FALSE, FALSE)>> ELSE <<>>) \o <<SwitchStmt(10 * b + 9)>>
    ELSE <<SStmt(10 * b + 1, FALSE, FALSE, FALSE)>>

InitPeel ==
    \E e1 \in PeelEnds(2), e2 \in PeelEnds(3) :
      /\ \E g0 \in {MkGraph(4,
                 [b \in 1..4 |-> IF b = 1 THEN [kind |-> e1.kind, dest |-> e1.dest]
                                 ELSE IF b = 2 THEN [kind |-> e2.kind, dest |-> e2.dest]
                                 ELSE IF b = 3 THEN [kind |-> "BBJ_ALWAYS", dest |-> 4]
                                 ELSE [kind |-> "BBJ_RETURN", dest |-> NoBlock]],
                 [b \in 1..4 |-> IF b = 1 THEN e1.swt ELSE IF b = 2 THEN e2.swt ELSE <<>>],
                 [b \in 1..4 |-> <<>>],
                 [b \in 1..4 |-> IF b = 1 THEN PeelBlockStmts(1, e1)
                                 ELSE IF b = 2 THEN PeelBlockStmts(2, e2)
                                 ELSE <<SStmt(10 * b + 1, FALSE, FALSE, FALSE)>>],
                 [b \in 1..4 |-> (IF (b = 1 /\ e1.w = 0) \/ (b = 2 /\ e2.w = 0)
                                  THEN {"BBF_RUN_RARELY"} ELSE {})
                                 \cup (IF (b = 1 /\ e1.dom.has) \/ (b = 2 /\ e2.dom.has)
                                       THEN {"BBF_PROF_WEIGHT"} ELSE {})],
                 [b \in 1..4 |-> IF b = 1 THEN e1.w ELSE IF b = 2 THEN e2.w ELSE 4],
                 [b \in 1..4 |-> 0], [b \in 1..4 |-> 0], <<>>, NoBlock, NoBlock, {}, FALSE)} :
           /\ InitFrom([g0 EXCEPT !.swtDom = [b \in 1..4 |-> IF b = 1 THEN e1.dom
                                                           ELSE IF b = 2 THEN e2.dom
                                                           ELSE NoDominantCase]])
           /\ loc = [calls |-> 0, modified |-> FALSE, before |-> g0,
                     fgHasSwitch |-> (e1.kind = "BBJ_SWITCH" \/ e2.kind = "BBJ_SWITCH")]
      /\ pc = "start"

\* One call of fgOptimizeSwitchJumps; nothing edits the flow graph between two calls.
OptimizeSwitchJumps ==
    /\ pc \in {"start", "peeled"}
    /\ loc.calls < MaxPeelCalls
    /\ \E g0 \in {G} : \E r \in {fgOptimizeSwitchJumps(g0, loc.fgHasSwitch)} :
         /\ SetG(r.g)
         /\ loc' = [loc EXCEPT !.calls = @ + 1, !.modified = r.modified, !.before = g0]
    /\ pc' = "peeled"

NextPeel == OptimizeSwitchJumps

SpecPeel == InitPeel /\ [][NextPeel]_vars

\* Once fgOptimizeSwitchJumps has run, no switch that is not rarely run has its dominant-case
\* flag set.
NoPeelableSwitchLeft ==
    pc = "peeled" => \A b \in Blocks(G) : ~HasPeelableSwitch(G, b)

\* C37: fgOptimizeSwitchJumps peels each switch at most once.  A call that peels a switch
\* leaves the switch, now in the block after the upstream BBJ_COND block, with its
\* dominant-case flag clear, and a call that follows another call with no edit in between
\* peels nothing: it returns false and leaves the flow graph as it was.
C37_PeelsAtMostOnce ==
    /\ (pc = "peeled" /\ loc.modified) =>
          \A b \in Blocks(loc.before) :
             HasPeelableSwitch(loc.before, b) =>
                /\ bbJumpKind[b] = "BBJ_COND"
                /\ bbJumpKind[Next(G, b)] = "BBJ_SWITCH"
                /\ bbJumpSwt[Next(G, b)] = loc.before.swt[b]
                /\ ~bbsDominant[Next(G, b)].has
    /\ (pc = "peeled" /\ loc.calls >= 2) => ~loc.modified /\ G = loc.before

\* Two switches were peeled by the first call, and a second call was made.
C37_Witness ==
    /\ pc = "peeled" /\ loc.calls = 2
    /\ Len(bbList) = 6
    /\ \E b \in Blocks(G) : bbJumpKind[b] = "BBJ_SWITCH" /\ ~isRunRarely(G, b)
                            /\ ~bbsDominant[b].has /\ bbsDominant[b].halves = 1


\* ---------------------------------------------------------------------------------------
\* fgReorderBlocks on a method with a call-finally pair
\* ---------------------------------------------------------------------------------------

\* Seven blocks: BB01 the entry, BB02 a try region whose finally is BB07, BB03 a block of
\* the code around the try, BB04 and BB05 the BBJ_CALLFINALLY and the BBJ_ALWAYS that leave
\* the try, BB06 the return.  Every block can be reached from the entry.  The BBJ_ALWAYS
\* of a pair may carry BBF_DONT_REMOVE, and the two blocks of a pair have one weight unless
\* the weight of the BBJ_CALLFINALLY comes from profile data.
InitLayoutPair ==
    /\ \E j1 \in {MJump("BBJ_COND", 3), MJump("BBJ_COND", 4), MJump("BBJ_COND", 6)},
          j3 \in {MJump("BBJ_ALWAYS", 6), MJump("BBJ_COND", 6), MJump("BBJ_RETURN", NoBlock),
                  MJump("BBJ_THROW", NoBlock)},
          j5 \in {MJump("BBJ_ALWAYS", 6), MJump("BBJ_ALWAYS", 3)},
          keepTail \in BOOLEAN, profCall \in BOOLEAN :
         \E weight \in {w \in [1..7 -> {0, 100}] :
                           w[1] = 100 /\ w[7] = 100 /\ (profCall \/ w[4] = w[5])} :
           \E jmp \in {<<j1, MJump("BBJ_ALWAYS", 4), j3, MJump("BBJ_CALLFINALLY", 7),
                         j5, MJump("BBJ_RETURN", NoBlock),
                         MJump("BBJ_EHFINALLYRET", NoBlock)>>} :
           \E g \in {MkGraph(7, jmp, [b \in 1..7 |-> <<>>],
                             [b \in 1..7 |-> IF b = 7 THEN <<5>> ELSE <<>>],
                             [b \in 1..7 |-> SimpStmts(b, jmp[b].kind, TRUE, FALSE)],
                             [b \in 1..7 |-> WeightFlags(weight[b], b = 4 /\ profCall)
                                             \cup (IF b \in {2, 7} \/ (b = 5 /\ keepTail)
                                                   THEN {"BBF_DONT_REMOVE"} ELSE {})
                                             \cup (IF b = 5 THEN {"BBF_KEEP_BBJ_ALWAYS"} ELSE {})],
                             weight, [b \in 1..7 |-> IF b = 2 THEN 1 ELSE 0],
                             [b \in 1..7 |-> IF b = 7 THEN 1 ELSE 0],
                             <<[ebdTryBeg |-> 2, ebdHndBeg |-> 7, ebdFilter |-> NoBlock,
                                ebdEnclosingTryIndex |-> 0]>>,
                             NoBlock, NoBlock, {}, FALSE)} :
             /\ ReachFrom(g, {1}, {}) = Blocks(g)
             /\ InitFrom(g)
    /\ pc = "start"
    /\ loc = [before |-> <<>>]

SpecLayoutPair == InitLayoutPair /\ [][NextLayout]_vars

\* C38: every range [bStart..bEnd] that fgReorderBlocks relocates keeps the call-finally
\* pairs whole.  No noway_assert fires; bEnd is never the BBJ_CALLFINALLY of a pair, and
\* bStart is never the BBJ_ALWAYS of a pair: the block bStartPrev that bStart followed
\* when the range was taken out is not the BBJ_CALLFINALLY of a pair.
C38_RangesKeepPairsWhole ==
    pc = "reordered" =>
       /\ ~fatal
       /\ \A r \in loc.ranges :
             /\ ~isBBCallAlwaysPair(G, r.bEnd)
             /\ ~isBBCallAlwaysPair(G, r.bStartPrev)
             /\ "BBF_KEEP_BBJ_ALWAYS" \notin bbFlags[r.bStart]

\* A range that starts with the BBJ_CALLFINALLY of a pair and ends with its BBJ_ALWAYS, or
\* later, was moved.
C38_Witness ==
    /\ pc = "reordered"
    /\ \E r \in loc.ranges :
          /\ isBBCallAlwaysPair(G, r.bStart)
          /\ r.bEnd # r.bStart
          /\ Next(loc.before, r.bStart) \in {r.bEnd, Prev(loc.before, r.bEnd)}


\* ---------------------------------------------------------------------------------------
\* System.IO.StdInReader: the keys read ahead of the caller
\* ---------------------------------------------------------------------------------------

\* BytesToBeRead, the bytes ReadKey asks stdin for at a time (1024 in the source).
BytesToBeRead == 2

\* How many times one call may read from stdin.
MaxReads == 2

\* _POSIX_VDISABLE, the value of a control character that is switched off.
s_posixDisableValue == "VDISABLE"

\* The characters a terminal sends: a letter, the Enter key and the VERASE character.
TermChars == {"a", "\r", "DEL"}

\* The control characters of the terminal, ConsolePal's s_veolCharacter, s_veol2Character,
\* s_veofCharacter and s_veraseCharacter: VEOL is switched off, or set to the character of
\* the erase key.
TermSettings ==
    {[s_veolCharacter |-> e, s_veol2Character |-> s_posixDisableValue,
      s_veofCharacter |-> "^D", s_veraseCharacter |-> "DEL"] : e \in {s_posixDisableValue, "DEL"}}

\* Stack<ConsoleKeyInfo>: the top is the head of the sequence.
Push(stack, k) == <<k>> \o stack

ConsoleKeyInfo(keyChar, key) == [KeyChar |-> keyChar, Key |-> key]

\* StdInReader.IsEol
IsEol(r, c) ==
    /\ c # s_posixDisableValue
    /\ c \in {r.term.s_veolCharacter, r.term.s_veol2Character, r.term.s_veofCharacter}

\* StdInReader.IsUnprocessedBufferEmpty
IsUnprocessedBufferEmpty(r) == r._startIndex >= r._endIndex

\* Encoding.GetMaxCharCount for an encoding of one byte a character with a replacement
\* fallback: one more than the bytes.
GetMaxCharCount(byteCount) == byteCount + 1

\* The reader as its constructor leaves it.  The array _unprocessedBufferToBeRead is a
\* function on 0 .. Length - 1.
NewStdInReader(term) ==
    [_readLineSB |-> <<>>, _tmpKeys |-> <<>>, _availableKeys |-> <<>>,
     _unprocessedBufferToBeRead |-> [i \in 0..(GetMaxCharCount(BytesToBeRead) - 1) |-> "NUL"],
     _startIndex |-> 0, _endIndex |-> 0, term |-> term]

BufferLength(r) == Cardinality(DOMAIN r._unprocessedBufferToBeRead)

\* The width of an int, scaled down from 32 bits.
IntWidth == 5

\* The value an int holds after an arithmetic operation gave x.
Int32(x) == ((x + 2^(IntWidth - 1)) % 2^IntWidth) - 2^(IntWidth - 1)

\* The first part of StdInReader.AppendExtraBuffer, "Ensure our buffer is large enough to hold
\* all of the data": the indices of an empty buffer go back to 0, a buffer that is not empty
\* and has less room than charLen is resized to Length * 2.  thrown: Array.Resize got a
\* negative size (ArgumentOutOfRangeException).
EnsureSpace(rr, charLen) ==
    With(rr, LAMBDA r :
    IF IsUnprocessedBufferEmpty(r)
    THEN [r |-> [r EXCEPT !._startIndex = 0, !._endIndex = 0], thrown |-> FALSE]
    ELSE IF BufferLength(r) - r._endIndex < charLen
    THEN With(Int32(BufferLength(r) * 2), LAMBDA newSize :
         IF newSize < 0 THEN [r |-> r, thrown |-> TRUE]
         ELSE [r |-> [r EXCEPT !._unprocessedBufferToBeRead =
                                  [i \in 0..(newSize - 1) |->
                                     IF i < BufferLength(r) THEN r._unprocessedBufferToBeRead[i] ELSE "NUL"]],
               thrown |-> FALSE])
    ELSE [r |-> r, thrown |-> FALSE])

\* StdInReader.AppendExtraBuffer, the decoder giving one character for a byte.  thrown: the
\* resize, or chars.CopyTo on a destination shorter than chars (ArgumentException), threw.
AppendExtraBuffer(rr, chars) ==
    With(Len(chars), LAMBDA charLen :
    With(EnsureSpace(rr, charLen), LAMBDA e :
    IF e.thrown \/ BufferLength(e.r) - e.r._endIndex < charLen THEN [r |-> e.r, thrown |-> TRUE]
    ELSE [r |-> [e.r EXCEPT !._unprocessedBufferToBeRead =
                               [i \in DOMAIN @ |-> IF i >= e.r._endIndex /\ i < e.r._endIndex + charLen
                                                   THEN chars[i - e.r._endIndex + 1] ELSE @[i]],
                            !._endIndex = @ + charLen],
          thrown |-> FALSE]))

\* KeyParser.Parse for a key of one character: the VERASE character is the Backspace key
\* whatever else it may be, "\r" is the Enter key, and a character that is no key of its
\* own comes with the default ConsoleKey.
KeyParserParse(r, c) ==
    IF c # s_posixDisableValue /\ c = r.term.s_veraseCharacter THEN ConsoleKeyInfo(c, "Backspace")
    ELSE IF c = "\r" THEN ConsoleKeyInfo(c, "Enter")
    ELSE IF c = "a" THEN ConsoleKeyInfo(c, "A")
    ELSE ConsoleKeyInfo(c, "None")

\* The private StdInReader.ReadKey().  input holds what the next calls of ReadStdin give: the
\* characters of a chunk, or nothing at the end of the input.  blocked: the call waits for
\* input that is not there.
ReadKey(rr, input) ==
    With(rr, LAMBDA r :
    IF ~IsUnprocessedBufferEmpty(r)
    THEN [r |-> [r EXCEPT !._startIndex = @ + 1], input |-> input, blocked |-> FALSE,
          keyInfo |-> KeyParserParse(r, r._unprocessedBufferToBeRead[r._startIndex])]
    ELSE IF input = <<>>
    THEN [r |-> r, input |-> input, blocked |-> TRUE, keyInfo |-> ConsoleKeyInfo("NUL", "None")]
    ELSE IF Head(input) = <<>>
    THEN [r |-> r, input |-> Tail(input), blocked |-> FALSE,
          keyInfo |-> ConsoleKeyInfo(
                        IF r.term.s_veolCharacter # s_posixDisableValue THEN r.term.s_veolCharacter
                        ELSE IF r.term.s_veol2Character # s_posixDisableValue THEN r.term.s_veol2Character
                        ELSE IF r.term.s_veofCharacter # s_posixDisableValue THEN r.term.s_veofCharacter
                        ELSE "NUL", "None")]
    ELSE With(AppendExtraBuffer(r, Head(input)).r, LAMBDA r1 :
         [r |-> [r1 EXCEPT !._startIndex = @ + 1], input |-> Tail(input), blocked |-> FALSE,
          keyInfo |-> KeyParserParse(r1, r1._unprocessedBufferToBeRead[r1._startIndex])]))

\* The finally block of ReadLineCore: while (_tmpKeys.Count > 0) _availableKeys.Push(_tmpKeys.Pop()).
RECURSIVE ReadLineFinally(_)
ReadLineFinally(rr) ==
    IF rr._tmpKeys = <<>> THEN rr
    ELSE ReadLineFinally([rr EXCEPT !._availableKeys = Push(@, Head(rr._tmpKeys)),
                                    !._tmpKeys = Tail(@)])

\* The loop of ReadLineCore.  read gathers the keys as they came from the terminal; writing
\* to the terminal is not part of the model.  thrown: Stack.Pop found _availableKeys empty
\* (InvalidOperationException).
RECURSIVE ReadLineLoop(_, _, _)
ReadLineLoop(st, consumeKeys, freshKeys) ==
    With(IF freshKeys THEN ReadKey(st.r, st.input)
         ELSE IF st.r._availableKeys = <<>>
         THEN [r |-> st.r, input |-> st.input, blocked |-> FALSE, thrown |-> TRUE,
               keyInfo |-> ConsoleKeyInfo("NUL", "None")]
         ELSE [r |-> [st.r EXCEPT !._availableKeys = Tail(@)], input |-> st.input,
               blocked |-> FALSE, keyInfo |-> Head(st.r._availableKeys)], LAMBDA k :
    IF k.blocked THEN [st EXCEPT !.blocked = TRUE]
    ELSE IF ~freshKeys /\ st.r._availableKeys = <<>> THEN [st EXCEPT !.thrown = TRUE]
    ELSE
    With(k.keyInfo, LAMBDA keyInfo :
    With(IF ~consumeKeys /\ keyInfo.Key # "Backspace"
         THEN [k.r EXCEPT !._tmpKeys = Push(@, keyInfo)] ELSE k.r, LAMBDA r1 :
    With([st EXCEPT !.r = r1, !.input = k.input,
                    !.read = IF freshKeys THEN Append(@, keyInfo) ELSE @,
                    !.popped = IF freshKeys THEN @ ELSE Append(@, keyInfo)], LAMBDA s1 :
    IF keyInfo.Key = "Enter" THEN [s1 EXCEPT !.isEnter = TRUE]
    ELSE IF IsEol(r1, keyInfo.KeyChar) THEN s1
    ELSE IF keyInfo.Key = "Backspace"
    THEN ReadLineLoop(
           [s1 EXCEPT !.r = IF consumeKeys
                            THEN [r1 EXCEPT !._readLineSB =
                                               IF Len(@) > 0 THEN SubSeq(@, 1, Len(@) - 1) ELSE @]
                            ELSE [r1 EXCEPT !._tmpKeys = IF @ # <<>> THEN Tail(@) ELSE @]],
           consumeKeys, freshKeys)
    ELSE IF keyInfo.Key = "Tab"
    THEN ReadLineLoop([s1 EXCEPT !.r._readLineSB = IF consumeKeys THEN Append(@, keyInfo.KeyChar) ELSE @],
                      consumeKeys, freshKeys)
    ELSE IF keyInfo.Key = "Clear"
    THEN ReadLineLoop([s1 EXCEPT !.r._readLineSB = <<>>], consumeKeys, freshKeys)
    ELSE IF keyInfo.KeyChar # "NUL"
    THEN ReadLineLoop([s1 EXCEPT !.r._readLineSB = IF consumeKeys THEN Append(@, keyInfo.KeyChar) ELSE @],
                      consumeKeys, freshKeys)
    ELSE ReadLineLoop(s1, consumeKeys, freshKeys)))))

\* StdInReader.ReadLineCore(consumeKeys)
ReadLineCore(rr, consumeKeys, input) ==
    With(rr, LAMBDA r :
    With(ReadLineLoop([r |-> [r EXCEPT !._readLineSB = <<>>], input |-> input, isEnter |-> FALSE,
                       blocked |-> FALSE, thrown |-> FALSE, read |-> <<>>, popped |-> <<>>],
                      consumeKeys, r._availableKeys = <<>>), LAMBDA s :
    [s EXCEPT !.r = ReadLineFinally(s.r)]))

\* StdInReader.ReadLine(): the line is the value returned ("null" for a null reference)
ReadLine(rr, input) ==
    With(ReadLineCore(rr, TRUE, input), LAMBDA s :
    IF s.thrown \/ s.blocked THEN [s EXCEPT !.isEnter = FALSE] @@ [result |-> "null", delivered |-> <<>>]
    ELSE [s EXCEPT !.r._readLineSB = <<>>]
         @@ [result |-> IF s.isEnter \/ Len(s.r._readLineSB) > 0 THEN s.r._readLineSB ELSE "null",
             delivered |-> s.popped])

\* StdInReader.ReadOrPeek(peek): Read() and Peek()
ReadOrPeek(rr, peek, input) ==
    With(IF rr._availableKeys = <<>> THEN ReadLineCore(rr, FALSE, input)
         ELSE [r |-> rr, input |-> input, isEnter |-> FALSE, blocked |-> FALSE, thrown |-> FALSE,
               read |-> <<>>, popped |-> <<>>], LAMBDA s :
    IF s.thrown \/ s.blocked \/ s.r._availableKeys = <<>> THEN s @@ [result |-> -1, delivered |-> <<>>]
    ELSE With(Head(s.r._availableKeys), LAMBDA keyInfo :
         [s EXCEPT !.r._availableKeys = IF peek THEN @ ELSE Tail(@)]
         @@ [result |-> IF ~IsEol(s.r, keyInfo.KeyChar) THEN keyInfo.KeyChar ELSE -1,
             delivered |-> IF peek THEN <<>> ELSE <<keyInfo>>]))

\* StdInReader.ReadKey(intercept); the echo is not part of the model
ReadKeyIntercept(rr, input) ==
    IF rr._availableKeys # <<>>
    THEN [r |-> [rr EXCEPT !._availableKeys = Tail(@)], input |-> input, blocked |-> FALSE,
          thrown |-> FALSE, read |-> <<>>, result |-> Head(rr._availableKeys),
          delivered |-> <<Head(rr._availableKeys)>>]
    ELSE With(ReadKey(rr, input), LAMBDA k :
         [r |-> k.r, input |-> k.input, blocked |-> k.blocked, thrown |-> FALSE,
          read |-> <<>>, result |-> k.keyInfo, delivered |-> <<>>])

\* What stdin may give to one call: up to MaxReads chunks of at most BytesToBeRead characters,
\* an empty chunk at the end of the input.
StdinChunks == {<<>>} \cup UNION {[1..n -> TermChars] : n \in 1..BytesToBeRead}
StdinInputs == UNION {[1..n -> StdinChunks] : n \in 0..MaxReads}

\* The keys of a line in the order they were typed, the keys a Backspace took away left out;
\* a Backspace key that ends the line takes nothing away.
RECURSIVE KeptKeys(_, _, _)
KeptKeys(r, read, acc) ==
    IF read = <<>> THEN acc
    ELSE KeptKeys(r, Tail(read),
                  IF Head(read).Key = "Backspace" /\ ~IsEol(r, Head(read).KeyChar)
                  THEN (IF acc = <<>> THEN acc ELSE SubSeq(acc, 1, Len(acc) - 1))
                  ELSE Append(acc, Head(read)))

\* A console reader in a process that compiles no method.
InitStdIn ==
    /\ InitGraph(MkGraph(1, <<MJump("BBJ_RETURN", NoBlock)>>, <<<<>>>>, <<<<>>>>, <<<<>>>>, <<{}>>,
                         <<1>>, <<0>>, <<0>>, <<>>, NoBlock, NoBlock, {}, FALSE))
    /\ \E term \in TermSettings : stdInReader = NewStdInReader(term)
    /\ pc = "ready"
    /\ loc = [call |-> "new", result |-> "null", kept |-> <<>>, delivered |-> <<>>]

\* The end of a call: the reader, and what the call gave.  A call that reads a line into
\* _availableKeys starts the record of the keys that are kept and of those handed out.
StdInReturn(call, s) ==
    /\ ~s.blocked
    /\ s.input = <<>>
    /\ stdInReader' = s.r
    /\ pc' = IF s.thrown THEN "thrown" ELSE "ready"
    /\ loc' = [call |-> call, result |-> s.result,
               kept |-> IF s.read # <<>> THEN KeptKeys(s.r, s.read, <<>>) ELSE loc.kept,
               delivered |-> IF s.read # <<>> THEN s.delivered ELSE loc.delivered \o s.delivered]
    /\ SetGraph(G)

Read ==
    /\ pc = "ready"
    /\ \E input \in StdinInputs : \E s \in {ReadOrPeek(stdInReader, FALSE, input)} :
          StdInReturn("Read", s)

Peek ==
    /\ pc = "ready"
    /\ \E input \in StdinInputs : \E s \in {ReadOrPeek(stdInReader, TRUE, input)} :
          StdInReturn("Peek", s)

CallReadLine ==
    /\ pc = "ready"
    /\ \E input \in StdinInputs : \E s \in {ReadLine(stdInReader, input)} :
          StdInReturn("ReadLine", [s EXCEPT !.read = <<>>])

CallReadKey ==
    /\ pc = "ready"
    /\ \E input \in StdinInputs : \E s \in {ReadKeyIntercept(stdInReader, input)} :
          StdInReturn("ReadKey", s)

NextStdIn == Read \/ Peek \/ CallReadLine \/ CallReadKey

SpecStdIn == InitStdIn /\ [][NextStdIn]_vars

\* A key that ends a line for ReadLineCore.
IsLineTerminator(r, keyInfo) == keyInfo.Key = "Enter" \/ IsEol(r, keyInfo.KeyChar)

\* _availableKeys is empty, or holds one line: a terminator at the bottom and none above.
HoldsOneLine(r) ==
    r._availableKeys # <<>> =>
       /\ IsLineTerminator(r, r._availableKeys[Len(r._availableKeys)])
       /\ \A i \in 1..(Len(r._availableKeys) - 1) : ~IsLineTerminator(r, r._availableKeys[i])

\* C39: between calls of Read, Peek, ReadLine and ReadKey(intercept) that threw nothing,
\* _tmpKeys is empty and _availableKeys is empty or holds one line, its terminator at the
\* bottom and no terminator above; no call pops an empty _availableKeys, and the keys
\* handed out followed by the keys still held are the keys of the line as they were typed.
C39_AvailableKeysHoldOneLine ==
    /\ pc = "ready" =>
          /\ stdInReader._tmpKeys = <<>>
          /\ HoldsOneLine(stdInReader)
          /\ loc.delivered \o stdInReader._availableKeys = loc.kept
    /\ pc # "thrown"

\* The same when no Backspace key carries an end-of-line character: the terminal's VEOL is not
\* its VERASE character.
HoldsOneLineUnlessEraseIsEol ==
    ~IsEol(stdInReader, stdInReader.term.s_veraseCharacter) =>
       /\ pc = "ready" =>
             /\ stdInReader._tmpKeys = <<>>
             /\ HoldsOneLine(stdInReader)
             /\ loc.delivered \o stdInReader._availableKeys = loc.kept
       /\ pc # "thrown"

\* Peek has read the line "a", ended by the erase key, which is an end-of-line character as
\* well: _availableKeys holds the letter and no terminator.
C39_LineWithoutTerminator ==
    /\ pc = "ready" /\ loc.call = "Peek"
    /\ stdInReader._availableKeys = <<ConsoleKeyInfo("a", "A")>>


\* ---------------------------------------------------------------------------------------
\* StdInReader.AppendExtraBuffer: the room in _unprocessedBufferToBeRead
\* ---------------------------------------------------------------------------------------

\* The longest decoded chunk handed to AppendExtraBuffer.
MaxChunk == 4

\* The longest buffer AppendExtraBuffer is called on.
MaxBufferLength == 12

InitAppend ==
    /\ InitGraph(MkGraph(1, <<MJump("BBJ_RETURN", NoBlock)>>, <<<<>>>>, <<<<>>>>, <<<<>>>>, <<{}>>,
                         <<1>>, <<0>>, <<0>>, <<>>, NoBlock, NoBlock, {}, FALSE))
    /\ \E term \in TermSettings : stdInReader = NewStdInReader(term)
    /\ pc = "ready"
    /\ loc = [charLen |-> 0, lengthBefore |-> 0, free |-> 0, resizeThrew |-> FALSE, thrown |-> FALSE]

\* One call of AppendExtraBuffer on a chunk that decodes to charLen characters.  free is the
\* room after the resize step: the length of the buffer less _endIndex.
AppendChunk ==
    /\ BufferLength(stdInReader) <= MaxBufferLength
    /\ \E charLen \in 0..MaxChunk :
       \E e \in {EnsureSpace(stdInReader, charLen)} :
       \E a \in {AppendExtraBuffer(stdInReader, [i \in 1..charLen |-> "a"])} :
          /\ stdInReader' = a.r
          /\ pc' = "appended"
          /\ loc' = [charLen |-> charLen, lengthBefore |-> BufferLength(stdInReader),
                     free |-> BufferLength(e.r) - e.r._endIndex,
                     resizeThrew |-> e.thrown, thrown |-> a.thrown]
    /\ SetGraph(G)

\* ReadKey() on a buffer that is not empty: KeyParser.Parse takes one character.
ConsumeKey ==
    /\ ~IsUnprocessedBufferEmpty(stdInReader)
    /\ \E k \in {ReadKey(stdInReader, <<>>)} : stdInReader' = k.r
    /\ pc' = "consumed"
    /\ UNCHANGED loc
    /\ SetGraph(G)

NextAppend == AppendChunk \/ ConsumeKey

SpecAppend == InitAppend /\ [][NextAppend]_vars

\* C40: after the resize step of AppendExtraBuffer the room in the buffer (its length less
\* _endIndex) is at least the number of characters appended, whatever the length of the
\* buffer, the indices and the length of the chunk; the copy is never refused.
C40_RoomForTheChunk ==
    pc = "appended" => loc.free >= loc.charLen /\ ~loc.thrown

\* The same for a chunk no longer than the buffer was, when the doubled length is an int.
RoomForAChunkWithinTheBuffer ==
    (pc = "appended" /\ loc.charLen <= loc.lengthBefore /\ ~loc.resizeThrew)
       => loc.free >= loc.charLen /\ ~loc.thrown

\* A chunk longer than the buffer was appended to an empty buffer, which is not resized.
C40_ChunkLongerThanBuffer ==
    /\ pc = "appended" /\ loc.charLen > loc.lengthBefore
    /\ loc.free < loc.charLen /\ loc.thrown

\* Two doublings would have been needed: the buffer was resized and is still too short.
C40_OneDoublingTooFew ==
    /\ pc = "appended" /\ BufferLength(stdInReader) > loc.lengthBefore
    /\ loc.free < loc.charLen /\ loc.thrown

\* Length * 2 left the range of an int.
C40_DoubledLengthOverflows ==
    pc = "appended" /\ loc.resizeThrew


-----------------------------------------------------------------------------
(* fgComputeDoms on methods of four blocks with an EH clause, compiled for OSR or not *)

\* the number of blocks of these methods
OsrBlocks == 4

\* every flow graph of OsrBlocks blocks with one EH clause whose try begins at the
\* entry and whose handler begins at the third or the fourth block; in a method
\* compiled for OSR the second block is the entry of the original method
InitDomOsr ==
    \E body \in [1..(OsrBlocks - 1) -> DomJumps(OsrBlocks, 1)], last \in DomJumps(OsrBlocks, OsrBlocks) :
      \E h \in 3..OsrBlocks, entryBB \in {NoBlock, 2} :
        \E eh \in {<<[ebdTryBeg |-> 1, ebdHndBeg |-> h, ebdFilter |-> NoBlock, ebdEnclosingTryIndex |-> 0]>>} :
            /\ \E g \in {MkGraph(OsrBlocks, [b \in 1..OsrBlocks |-> IF b < OsrBlocks THEN body[b] ELSE last],
                                 [b \in 1..OsrBlocks |-> <<>>], [b \in 1..OsrBlocks |-> <<>>],
                                 [b \in 1..OsrBlocks |-> <<>>], EHFlags(OsrBlocks, eh),
                                 [b \in 1..OsrBlocks |-> 1], [b \in 1..OsrBlocks |-> 0],
                                 [b \in 1..OsrBlocks |-> 0], eh, NoBlock, entryBB, {}, FALSE)} :
                  InitFrom(g)
            /\ pc = "start"
            /\ loc = [pre |-> <<>>]

SpecDomOsr == InitDomOsr /\ [][NextDom]_vars

\* the loop of fgComputeDoms finds a processed predecessor for every block when the
\* method is not compiled for OSR, or the entry of the original method has no
\* predecessor or can be reached from fgFirstBB
ProcessedPredExistsUnlessOsrEntryIsApart ==
    (/\ pc = "doms" /\ AllRooted(G)
     /\ \/ fgEntryBB = NoBlock
        \/ PredSet(G, fgEntryBB) = {}
        \/ PathReaches(G, fgFirstBB(G), fgEntryBB)) =>
        /\ ~fatal
        /\ fgDomsComputed
        /\ \E s \in {DomLoop(G)} :
              /\ ~s.fatal
              /\ \A b \in Blocks(G) : s.idom[b] # NoBlock /\ bbNum[b] \in s.processed

\* an OSR method: the original entry BB02 and BB04 form a cycle that only the
\* handler BB03 enters, and noway_assert(first != nullptr) has fired
C33_OsrEntryBeforeItsPred ==
    /\ pc = "doms" /\ AllRooted(G) /\ fatal
    /\ fgEntryBB = 2 /\ compHndBBtab[1].ebdHndBeg = 3
    /\ bbJumpKind = <<"BBJ_RETURN", "BBJ_ALWAYS", "BBJ_ALWAYS", "BBJ_ALWAYS">>
    /\ bbJumpDest[2] = 4 /\ bbJumpDest[3] = 4 /\ bbJumpDest[4] = 2

====
